---- MODULE Spec2Model ----
(***************************************************************************)
(* The serving core of the customer-churn repository:                      *)
(*   - the API process (src/backend/api/main.py): load_model_components,   *)
(*     preprocess_customer_data and the /predict handler predict_churn;    *)
(*   - the library path (src/frontend/prediction_service.py):              *)
(*     get_predictor, ChurnPredictor._validate_input_data,                 *)
(*     ChurnPredictor._preprocess_data and ChurnPredictor.predict_single;  *)
(*   - the batch handlers predict_churn_batch and predict_batch;           *)
(*   - the status handlers health_check and get_model_info;                *)
(*   - get_predictor statement by statement, for callers in threads;       *)
(*   - the login session of the frontend (src/frontend/auth.py, app.py and *)
(*     the pages): show_login_form, logout, require_authentication.        *)
(*                                                                         *)
(* Conventions.                                                            *)
(*   A probability or a threshold is an integer in units of 10^-5, so the  *)
(*   literal 0.535 of the source is 53500 and 0.8 is 80000.                *)
(*   A cell of a data frame is a record [kind, s, n, d]: a string s, or    *)
(*   the number n/d (d > 0, lowest terms), or a number that went through   *)
(*   the fitted scaler (kind "scaled", the scaler being an opaque          *)
(*   per-column map), or NaN.                                              *)
(*   The classifier and the scaler are external: the handler draws the     *)
(*   classifier's probability from a set, and either call may raise.       *)
(***************************************************************************)
EXTENDS Integers, Sequences, FiniteSets, TLC

VARIABLES
    models_dir,         \* the artifact files on disk: which load, and what they hold
    api_started,        \* the API's startup_event has run
    api_loaded,         \* the API's module globals that are not None
    predictor,          \* the library's global _predictor: "None" or "instance"
    request,            \* the request in flight: [path, data]
    df,                 \* the engineered frame of the request handled last
    processed_data,     \* the feature vector handed to the classifier
    churn_probability,  \* the classifier's output for that vector
    response,           \* the handler's answer
    calls,              \* what the handling of the request has called, in order
    clock,              \* datetime.now()
    callers,            \* the threads inside get_predictor, and what they constructed
    frontend            \* one Streamlit session: session_state, users.json, the page shown

vars == <<models_dir, api_started, api_loaded, predictor, request, df,
          processed_data, churn_probability, response, calls, clock, callers, frontend>>

----------------------------------------------------------------------------
(* Cells *)

Str(s) == [kind |-> "str", s |-> s, n |-> 0, d |-> 1]

RECURSIVE GCD(_, _)
GCD(a, b) == IF b = 0 THEN a ELSE GCD(b, a % b)

\* the number n / d, d > 0, in lowest terms
Quot(n, d) ==
    LET g == GCD(n, d)
    IN [kind |-> "num", s |-> "", n |-> n \div g, d |-> d \div g]

Num(n) == Quot(n, 1)

NaN == [kind |-> "nan", s |-> "", n |-> 0, d |-> 1]

\* Python's None in a cell
NoneCell == [kind |-> "none", s |-> "", n |-> 0, d |-> 1]

IsStr(c, s) == c.kind = "str" /\ c.s = s

\* c <= k for a numeric cell c and an integer k
NumLeq(c, k) == c.kind = "num" /\ c.n <= k * c.d

\* a column set (df[name] = value): the new value replaces an older one
SetCol(frame, name, value) == (name :> value) @@ frame

RECURSIVE SeqToSet(_)
SeqToSet(s) == IF s = <<>> THEN {} ELSE {Head(s)} \cup SeqToSet(Tail(s))

\* position of x in the sequence s (1-based), 0 when absent
RECURSIVE IndexOf(_, _)
IndexOf(s, x) ==
    IF s = <<>> THEN 0
    ELSE IF Head(s) = x THEN 1
    ELSE LET r == IndexOf(Tail(s), x) IN IF r = 0 THEN 0 ELSE r + 1

----------------------------------------------------------------------------
(* The raw customer record *)

required_fields ==
    <<"gender", "SeniorCitizen", "Partner", "Dependents", "tenure",
      "PhoneService", "MultipleLines", "InternetService", "OnlineSecurity",
      "OnlineBackup", "DeviceProtection", "TechSupport", "StreamingTV",
      "StreamingMovies", "Contract", "PaperlessBilling", "PaymentMethod",
      "MonthlyCharges", "TotalCharges">>

numeric_fields == <<"tenure", "MonthlyCharges", "TotalCharges", "SeniorCitizen">>

----------------------------------------------------------------------------
(* Label encoders: a fitted encoder is its classes_, a sorted sequence of
   strings; the code of a class is its index in classes_, counted from 0. *)

\* LabelEncoder.transform on one known value
transform(classes, s) == IndexOf(classes, s) - 1

\* main.py: le.transform([x])[0] if x in le.classes_ else 0
api_encode(classes, x) ==
    IF x.kind = "str" /\ x.s \in SeqToSet(classes)
    THEN Num(transform(classes, x.s))
    ELSE Num(0)

\* an encoder that answers an unseen value with the code of its last class
fe_encode_last_class(classes, x) ==
    IF x.kind = "str" /\ x.s \in SeqToSet(classes)
    THEN Num(transform(classes, x.s))
    ELSE Num(transform(classes, classes[Len(classes)]))

\* prediction_service.py, step 1: transform, and on ValueError the code of classes_[0]
fe_encode(classes, x) ==
    IF x.kind = "str" /\ x.s \in SeqToSet(classes)
    THEN Num(transform(classes, x.s))
    ELSE Num(transform(classes, classes[1]))

\* prediction_service.py, LifeStage and TenureCategory: transform, and on any exception 0
fe_encode_derived(classes, s) ==
    IF s \in SeqToSet(classes) THEN Num(transform(classes, s)) ELSE Num(0)

----------------------------------------------------------------------------
(* preprocess_customer_data (API) *)

\* df['SeniorCitizen'].map({0: 'No', 1: 'Yes'})
senior_citizen_label(c) ==
    IF c = Num(0) THEN Str("No") ELSE IF c = Num(1) THEN Str("Yes") ELSE NaN

determine_life_stage(row) ==
    IF row["SeniorCitizen"] = Num(1)
    THEN IF IsStr(row["Partner"], "No") THEN "Senior Individual" ELSE "Senior Couple"
    ELSE IF IsStr(row["Partner"], "No") THEN "Young Individual"
    ELSE IF IsStr(row["Dependents"], "Yes") THEN "Young Family"
    ELSE "Young Couple"

bundle_definitions ==
    [SecurityBundle |-> <<"OnlineSecurity", "OnlineBackup", "DeviceProtection">>,
     StreamingBundle |-> <<"StreamingTV", "StreamingMovies">>,
     OnlinePerksBundle |-> <<"OnlineSecurity", "OnlineBackup", "TechSupport">>,
     BasicSupportBundle |-> <<"TechSupport", "DeviceProtection">>]

\* how many of the columns cols hold 'Yes'
CountYes(row, cols) ==
    Cardinality({i \in 1..Len(cols) : cols[i] \in DOMAIN row /\ IsStr(row[cols[i]], "Yes")})

\* (df[services] == 'Yes').sum(axis=1).apply(lambda x: 1 if x >= len(services) else 0)
api_bundle(row, services) ==
    IF CountYes(row, services) >= Len(services) THEN 1 ELSE 0

high_value_services ==
    <<"InternetService", "OnlineSecurity", "OnlineBackup", "DeviceProtection",
      "TechSupport", "StreamingTV", "StreamingMovies">>

\* one pass of the loop body of calculate_service_score
service_points(row, service) ==
    IF service = "InternetService"
    THEN IF IsStr(row[service], "Fiber optic") THEN 2
         ELSE IF IsStr(row[service], "DSL") THEN 1 ELSE 0
    ELSE IF IsStr(row[service], "Yes") THEN 1 ELSE 0

RECURSIVE score_loop(_, _)
score_loop(row, services) ==
    IF services = <<>> THEN 0
    ELSE service_points(row, Head(services)) + score_loop(row, Tail(services))

calculate_service_score(row) == score_loop(row, high_value_services)

\* df['MonthlyCharges'] / (df['ServiceAdoptionScore'] + 1)
api_charges_per_service(charges, score) ==
    IF charges.kind = "num" THEN Quot(charges.n, charges.d * (score + 1)) ELSE NaN

categorize_tenure(tenure) ==
    IF NumLeq(tenure, 12) THEN "New_Customer"
    ELSE IF NumLeq(tenure, 36) THEN "Established_Customer"
    ELSE "Long_Term_Customer"

categorical_features ==
    <<"gender", "SeniorCitizen_Label", "Partner", "Dependents",
      "PhoneService", "MultipleLines", "InternetService",
      "OnlineSecurity", "OnlineBackup", "DeviceProtection",
      "TechSupport", "StreamingTV", "StreamingMovies",
      "Contract", "PaperlessBilling", "PaymentMethod",
      "LifeStage", "TenureCategory">>

\* the encoding loop over categorical_features
RECURSIVE api_encode_loop(_, _, _)
api_encode_loop(frame, features, encoders) ==
    IF features = <<>> THEN frame
    ELSE LET feature == Head(features)
             next == IF feature \in DOMAIN frame /\ feature \in DOMAIN encoders
                     THEN SetCol(frame, feature \o "_encoded",
                                 api_encode(encoders[feature], frame[feature]))
                     ELSE frame
         IN api_encode_loop(next, Tail(features), encoders)

\* (df['InternetService'] == 'Fiber optic').astype(int)
has_fiber_optic(c) == IF IsStr(c, "Fiber optic") THEN 1 ELSE 0

\* an indicator that is 1 for every value of InternetService but 'DSL'
has_internet_but_dsl(c) == IF IsStr(c, "DSL") THEN 0 ELSE 1

\* (df['InternetService'] != 'No').astype(int)
has_internet(c) == IF IsStr(c, "No") THEN 0 ELSE 1

\* lines 130-193: the engineered columns, before encoding
api_engineered(data) ==
    LET score == calculate_service_score(data)
    IN  ("SeniorCitizen_Label" :> senior_citizen_label(data["SeniorCitizen"]))
     @@ ("LifeStage" :> Str(determine_life_stage(data)))
     @@ ("SecurityBundle" :> Num(api_bundle(data, bundle_definitions.SecurityBundle)))
     @@ ("StreamingBundle" :> Num(api_bundle(data, bundle_definitions.StreamingBundle)))
     @@ ("OnlinePerksBundle" :> Num(api_bundle(data, bundle_definitions.OnlinePerksBundle)))
     @@ ("BasicSupportBundle" :> Num(api_bundle(data, bundle_definitions.BasicSupportBundle)))
     @@ ("ServiceAdoptionScore" :> Num(score))
     @@ ("MonthlyChargesPerService" :> api_charges_per_service(data["MonthlyCharges"], score))
     @@ ("TenureCategory" :> Str(categorize_tenure(data["tenure"])))
     @@ ("HasFiberOptic" :> Num(has_fiber_optic(data["InternetService"])))
     @@ ("HasInternet" :> Num(has_internet(data["InternetService"])))
     @@ data

\* the frame df at line 213, all columns built
api_frame(data, encoders) ==
    api_encode_loop(api_engineered(data), categorical_features, encoders)

numerical_features ==
    <<"tenure", "MonthlyCharges", "TotalCharges", "ServiceAdoptionScore",
      "MonthlyChargesPerService">>

\* the fitted scaler applied to one value
Scaled(c) == [c EXCEPT !.kind = IF c.kind = "num" THEN "scaled" ELSE c.kind]

\* final_df[numerical_cols_to_scale] = scaler.transform(...)
api_scale(name, c) ==
    IF name \in SeqToSet(numerical_features) THEN Scaled(c) ELSE c

\* [col for col in model_features if col in numerical_features]
numerical_cols_to_scale(features) ==
    SelectSeq(features, LAMBDA col : col \in SeqToSet(numerical_features))

\* df[model_features] raises KeyError when a name is no column of df
api_select_ok(frame, features) ==
    \A i \in 1..Len(features) : features[i] \in DOMAIN frame

\* preprocess_customer_data: the outcome, with the frame it built; final is what it
\* returns when scaler.transform (called iff calls_scaler) returns.
\* features_loaded: model_features is not None.
preprocess_customer_data(data, encoders, features, features_loaded) ==
    LET frame == api_frame(data, encoders)
    IN  IF ~features_loaded \/ ~api_select_ok(frame, features)
        THEN [ok |-> FALSE, error |-> "KeyError", calls_scaler |-> FALSE,
              df |-> frame, final |-> <<>>]
        ELSE [ok |-> TRUE, error |-> "",
              calls_scaler |-> numerical_cols_to_scale(features) # <<>>,
              df |-> frame,
              final |-> [i \in 1..Len(features) |->
                            [name |-> features[i],
                             value |-> api_scale(features[i], frame[features[i]])]]]

----------------------------------------------------------------------------
(* ChurnPredictor._validate_input_data *)

\* the strings float() accepts, with their values
float_of_string == ("0" :> 0) @@ ("12" :> 12) @@ (" 170 " :> 170)

\* a coercion that puts 1.0 where float() raises
to_float_or_one(c) ==
    IF c.kind = "num" THEN c
    ELSE IF c.kind = "str" /\ c.s \in DOMAIN float_of_string
    THEN Num(float_of_string[c.s])
    ELSE IF c.kind = "nan" THEN c
    ELSE Num(1)

\* float(value), and 0.0 on ValueError or TypeError
to_float_or_zero(c) ==
    IF c.kind = "num" THEN c
    ELSE IF c.kind = "str" /\ c.s \in DOMAIN float_of_string
    THEN Num(float_of_string[c.s])
    ELSE IF c.kind = "nan" THEN c
    ELSE Num(0)

missing_fields(data) ==
    SelectSeq(required_fields, LAMBDA field : field \notin DOMAIN data)

\* the cleaned copy (lines 131-149); the caller checks missing_fields first
cleaned_data(data) ==
    [field \in DOMAIN data |->
        IF field \in SeqToSet(numeric_fields)
        THEN to_float_or_zero(data[field])
        ELSE data[field]]

\* a validation that does not miss the field TotalCharges
validate_input_data_lenient(data) ==
    IF missing_fields(data) \notin {<<>>, <<"TotalCharges">>}
    THEN [ok |-> FALSE, error |-> "ValueError", data |-> data]
    ELSE [ok |-> TRUE, error |-> "", data |-> cleaned_data(data)]

validate_input_data(data) ==
    IF missing_fields(data) # <<>>
    THEN [ok |-> FALSE, error |-> "ValueError", data |-> data]
    ELSE [ok |-> TRUE, error |-> "", data |-> cleaned_data(data)]

----------------------------------------------------------------------------
(* ChurnPredictor._preprocess_data *)

categorical_mappings ==
    <<"gender", "Partner", "Dependents", "PhoneService", "MultipleLines",
      "InternetService", "OnlineSecurity", "OnlineBackup", "DeviceProtection",
      "TechSupport", "StreamingTV", "StreamingMovies", "Contract",
      "PaperlessBilling", "PaymentMethod">>

\* step 1: the loop over categorical_mappings (reads df, writes df_processed)
RECURSIVE fe_encode_loop(_, _, _, _)
fe_encode_loop(frame, data, columns, encoders) ==
    IF columns = <<>> THEN frame
    ELSE LET original_col == Head(columns)
             next == IF original_col \in DOMAIN data /\ original_col \in DOMAIN encoders
                     THEN SetCol(frame, original_col \o "_encoded",
                                 fe_encode(encoders[original_col], data[original_col]))
                     ELSE frame
         IN fe_encode_loop(next, data, Tail(columns), encoders)

\* step 2: the senior-citizen column
fe_senior(frame, data) ==
    IF "SeniorCitizen" \in DOMAIN data
    THEN SetCol(frame, "SeniorCitizen_Label_encoded", data["SeniorCitizen"])
    ELSE frame

fe_life_stage(data) ==
    IF IsStr(data["Partner"], "No") /\ IsStr(data["Dependents"], "No") THEN "Single"
    ELSE IF IsStr(data["Partner"], "Yes") /\ IsStr(data["Dependents"], "No") THEN "Couple"
    ELSE "Family"

fe_life_stage_column(frame, data, encoders) ==
    IF "Partner" \in DOMAIN data /\ "Dependents" \in DOMAIN data /\ "LifeStage" \in DOMAIN encoders
    THEN SetCol(frame, "LifeStage_encoded",
                fe_encode_derived(encoders["LifeStage"], fe_life_stage(data)))
    ELSE frame

\* tenure bands whose upper bounds are exclusive
fe_tenure_cat_exclusive(tenure) ==
    IF NumLeq(tenure, 11) THEN "Short-term"
    ELSE IF NumLeq(tenure, 35) THEN "Medium-term"
    ELSE "Long-term"

fe_tenure_cat(tenure) ==
    IF NumLeq(tenure, 12) THEN "Short-term"
    ELSE IF NumLeq(tenure, 36) THEN "Medium-term"
    ELSE "Long-term"

fe_tenure_column(frame, data, encoders) ==
    IF "tenure" \in DOMAIN data /\ "TenureCategory" \in DOMAIN encoders
    THEN SetCol(frame, "TenureCategory_encoded",
                fe_encode_derived(encoders["TenureCategory"], fe_tenure_cat(data["tenure"])))
    ELSE frame

service_columns ==
    <<"PhoneService", "MultipleLines", "InternetService", "OnlineSecurity",
      "OnlineBackup", "DeviceProtection", "TechSupport", "StreamingTV",
      "StreamingMovies">>

\* service_count: the columns of service_columns equal to 'Yes'
fe_service_count(data) == CountYes(data, service_columns)

\* MonthlyCharges / service_count when service_count > 0, else 0
fe_charges_per_service(data, service_count) ==
    IF "MonthlyCharges" \in DOMAIN data /\ service_count > 0
    THEN IF data["MonthlyCharges"].kind = "num"
         THEN Quot(data["MonthlyCharges"].n, data["MonthlyCharges"].d * service_count)
         ELSE NaN
    ELSE Num(0)

security_services == <<"OnlineSecurity", "DeviceProtection", "TechSupport">>
streaming_services == <<"StreamingTV", "StreamingMovies">>
perks_services == <<"OnlineSecurity", "OnlineBackup">>
support_services == <<"TechSupport", "DeviceProtection">>

\* a bundle column: the count of its services equal to 'Yes'
fe_bundle(data, services) == CountYes(data, services)

\* 1 if ('InternetService' in df.columns and ... == 'Fiber optic') else 0
fe_has_fiber_optic(data) ==
    IF "InternetService" \in DOMAIN data /\ IsStr(data["InternetService"], "Fiber optic")
    THEN 1 ELSE 0

\* 1 if ('InternetService' in df.columns and ... != 'No') else 0
fe_has_internet(data) ==
    IF "InternetService" \in DOMAIN data /\ ~IsStr(data["InternetService"], "No")
    THEN 1 ELSE 0

\* lines 227-266: the derived numeric columns
fe_derived(frame, data) ==
    LET service_count == fe_service_count(data)
    IN  ("ServiceAdoptionScore" :> Num(service_count))
     @@ ("MonthlyChargesPerService" :> fe_charges_per_service(data, service_count))
     @@ ("SecurityBundle" :> Num(fe_bundle(data, security_services)))
     @@ ("StreamingBundle" :> Num(fe_bundle(data, streaming_services)))
     @@ ("OnlinePerksBundle" :> Num(fe_bundle(data, perks_services)))
     @@ ("BasicSupportBundle" :> Num(fe_bundle(data, support_services)))
     @@ ("HasFiberOptic" :> Num(fe_has_fiber_optic(data)))
     @@ ("HasInternet" :> Num(fe_has_internet(data)))
     @@ frame

\* df_processed at line 267, before the missing model features are filled in
fe_frame(data, encoders) ==
    fe_derived(
        fe_tenure_column(
            fe_life_stage_column(
                fe_senior(fe_encode_loop(data, data, categorical_mappings, encoders), data),
                data, encoders),
            data, encoders),
        data)

\* lines 269-272: every model feature that is no column yet becomes the column 0
fe_fill_missing(frame, features) ==
    [name \in DOMAIN frame \cup SeqToSet(features) |->
        IF name \in DOMAIN frame THEN frame[name] ELSE Num(0)]

\* a frame with a string column cannot be made a float array
has_string(final) == \E i \in 1..Len(final) : final[i].value.kind = "str"

\* _preprocess_data: the outcome, with the frame it built; final is what it returns
\* when scaler.transform, called on every column, returns.
preprocess_data(data, encoders, features) ==
    LET frame == fe_fill_missing(fe_frame(data, encoders), features)
        df_final == [i \in 1..Len(features) |->
                        [name |-> features[i], value |-> frame[features[i]]]]
    IN  IF has_string(df_final)
        THEN [ok |-> FALSE, error |-> "ValueError", calls_scaler |-> TRUE,
              df |-> frame, final |-> <<>>]
        ELSE [ok |-> TRUE, error |-> "", calls_scaler |-> TRUE, df |-> frame,
              final |-> [i \in 1..Len(features) |->
                            [name |-> features[i], value |-> Scaled(df_final[i].value)]]]

----------------------------------------------------------------------------
(* The decision policy of predict_churn (API) *)

ApiDefaultThreshold == 50000
ApiConfidenceHighUpper == 80000
ApiConfidenceHighLower == 20000
ApiConfidenceMediumUpper == 60000
ApiConfidenceMediumLower == 40000
ApiHighRisk == 80000
ApiMediumRisk == 53500

\* dict.get on the loaded metadata: md.keys are the keys the pickled dict holds
api_recommended_threshold(md) ==
    IF "recommended_threshold" \in md.keys THEN md.recommended_threshold
    ELSE ApiDefaultThreshold

api_churn_prediction(p, threshold) ==
    IF p >= threshold THEN "Will Churn" ELSE "Will Stay"

api_confidence_level(p) ==
    IF p >= ApiConfidenceHighUpper \/ p <= ApiConfidenceHighLower THEN "High"
    ELSE IF p >= ApiConfidenceMediumUpper \/ p <= ApiConfidenceMediumLower THEN "Medium"
    ELSE "Low"

api_risk_category(p) ==
    IF p >= ApiHighRisk THEN "High Risk"
    ELSE IF p >= ApiMediumRisk THEN "Medium Risk"
    ELSE "Low Risk"

api_recommended_action(p) ==
    IF p >= ApiHighRisk
    THEN "Immediate intervention: Contact customer with retention offers, personalized discounts, or service upgrades"
    ELSE IF p >= ApiMediumRisk
    THEN "Proactive outreach: Schedule customer satisfaction call, offer service bundle upgrades, review account"
    ELSE "Monitor: Include in regular customer satisfaction surveys, consider upselling opportunities"

\* round(p, 4): to the nearest multiple of 10^-4, a tie going to the even one
round4(p) ==
    LET q == p \div 10
        r == p % 10
    IN  IF r < 5 THEN 10 * q
        ELSE IF r > 5 THEN 10 * (q + 1)
        ELSE IF q % 2 = 0 THEN 10 * q ELSE 10 * (q + 1)

\* model_info with the time of the run in a second field
api_model_info_dated(md, now) ==
    [model_name |-> IF "model_name" \in md.keys THEN md.model_name ELSE "Unknown",
     recall |-> now,
     threshold_used |-> api_recommended_threshold(md),
     prediction_timestamp |-> now]

api_model_info(md, now) ==
    [model_name |-> IF "model_name" \in md.keys THEN md.model_name ELSE "Unknown",
     recall |-> IF "performance_metrics" \in md.keys THEN md.recall ELSE 0,
     threshold_used |-> api_recommended_threshold(md),
     prediction_timestamp |-> now]

\* lines 304-343: the ChurnPrediction built from the probability
api_decision(customer_id, p, md, now) ==
    [status |-> "200",
     customer_id |-> customer_id,
     churn_probability |-> round4(p),
     churn_prediction |-> api_churn_prediction(p, api_recommended_threshold(md)),
     confidence_level |-> api_confidence_level(p),
     risk_category |-> api_risk_category(p),
     recommended_action |-> api_recommended_action(p),
     model_info |-> api_model_info(md, now)]

----------------------------------------------------------------------------
(* The decision policy of ChurnPredictor.predict_single *)

FeThreshold == 53500
FeHighRisk == 80000
FeMediumRisk == 53500
FeLowRiskHighConfidence == 30000

\* int(churn_probability > 0.535)
fe_prediction(p) == IF p > FeThreshold THEN 1 ELSE 0

fe_risk_category(p) ==
    IF p > FeHighRisk THEN "High Risk"
    ELSE IF p > FeMediumRisk THEN "Medium Risk"
    ELSE "Low Risk"

fe_confidence(p) ==
    IF p > FeHighRisk THEN "High"
    ELSE IF p > FeMediumRisk THEN "Medium"
    ELSE IF p < FeLowRiskHighConfidence THEN "High" ELSE "Medium"

fe_recommendation(p) ==
    IF p > FeHighRisk
    THEN "Immediate intervention required. Contact customer with retention offers."
    ELSE IF p > FeMediumRisk
    THEN "Monitor closely. Consider proactive engagement or targeted offers."
    ELSE "Standard service. Focus on maintaining satisfaction."

\* lines 296-322: the dict built from the probability
fe_decision(p, md, now) ==
    [status |-> "ok",
     prediction |-> fe_prediction(p),
     churn_probability |-> round4(p),
     risk_category |-> fe_risk_category(p),
     confidence |-> fe_confidence(p),
     recommendation |-> fe_recommendation(p),
     model_version |-> IF "version" \in md.keys THEN md.version ELSE "1.0.0",
     prediction_date |-> now]

----------------------------------------------------------------------------
(* Loading the artifacts *)

\* the five artifacts, in the order both loaders read their files
components == <<"model", "scaler", "label_encoders", "model_features", "model_metadata">>

\* load_model_components: the globals assigned before the first file that fails
load_model_components(present) ==
    {components[i] : i \in {k \in 1..Len(components) :
                                \A j \in 1..k : components[j] \in present}}

\* ChurnPredictor(): _load_model_components raises unless every file loads
ChurnPredictor(present) ==
    IF SeqToSet(components) \subseteq present THEN "instance" ELSE "None"

\* the threads that may call get_predictor
MaxCallers == 2
Callers == 1..MaxCallers

\* no thread is inside get_predictor, no instance was constructed, _predictor is None
NoCallers ==
    [pc |-> [c \in Callers |-> "idle"],
     local |-> [c \in Callers |-> 0],
     got |-> [c \in Callers |-> 0],
     made |-> 0,
     current |-> 0]

----------------------------------------------------------------------------
(* The request schema CustomerData *)

yes_no == {"Yes", "No"}
valid_contracts == {"Month-to-month", "One year", "Two year"}
valid_methods ==
    {"Electronic check", "Mailed check", "Bank transfer (automatic)",
     "Credit card (automatic)"}

IsInt(c, lo, hi) == c.kind = "num" /\ c.d = 1 /\ c.n >= lo /\ c.n <= hi

\* the service flags agree with InternetService
services_consistent(data) ==
    \A i \in 1..6 :
        LET f == <<"OnlineSecurity", "OnlineBackup", "DeviceProtection", "TechSupport",
                   "StreamingTV", "StreamingMovies">>[i]
        IN  /\ data["InternetService"].s = "No" => data[f].s # "Yes"
            /\ data["InternetService"].s # "No" => data[f].s # "No internet service"

\* a schema with a validator that rejects flags disagreeing with InternetService
customer_data_valid_consistent(data) ==
    /\ SeqToSet(required_fields) \subseteq DOMAIN data
    /\ \A f \in SeqToSet(required_fields) \ SeqToSet(numeric_fields) : data[f].kind = "str"
    /\ IsInt(data["SeniorCitizen"], 0, 1)
    /\ IsInt(data["tenure"], 0, 100)
    /\ data["MonthlyCharges"].kind = "num" /\ data["MonthlyCharges"].n >= 0
    /\ data["TotalCharges"].kind = "num" /\ data["TotalCharges"].n >= 0
    /\ data["gender"].s \in {"Male", "Female"}
    /\ \A f \in {"Partner", "Dependents", "PaperlessBilling", "PhoneService"} :
          data[f].s \in yes_no
    /\ data["Contract"].s \in valid_contracts
    /\ data["PaymentMethod"].s \in valid_methods
    /\ data["InternetService"].s \in {"DSL", "Fiber optic", "No"}
    /\ services_consistent(data)

customer_data_valid(data) ==
    /\ SeqToSet(required_fields) \subseteq DOMAIN data
    /\ \A f \in SeqToSet(required_fields) \ SeqToSet(numeric_fields) : data[f].kind = "str"
    /\ IsInt(data["SeniorCitizen"], 0, 1)
    /\ IsInt(data["tenure"], 0, 100)
    /\ data["MonthlyCharges"].kind = "num" /\ data["MonthlyCharges"].n >= 0
    /\ data["TotalCharges"].kind = "num" /\ data["TotalCharges"].n >= 0
    /\ data["gender"].s \in {"Male", "Female"}
    /\ \A f \in {"Partner", "Dependents", "PaperlessBilling", "PhoneService"} :
          data[f].s \in yes_no
    /\ data["Contract"].s \in valid_contracts
    /\ data["PaymentMethod"].s \in valid_methods
    /\ data["InternetService"].s \in {"DSL", "Fiber optic", "No"}

----------------------------------------------------------------------------
(* The handlers *)

NoProbability == -1
EmptyFrame == [name \in {} |-> NaN]

\* the feature builder was not reached
not_preprocessed(error) ==
    [ok |-> FALSE, error |-> error, calls_scaler |-> FALSE, df |-> EmptyFrame,
     final |-> <<>>]

\* an HTTP error answer: the handler's locals are gone with the exception.
\* cause is the str(e) the detail ends with.
api_error(status, detail, cause, called) ==
    [df |-> EmptyFrame, final |-> <<>>, p |-> NoProbability, calls |-> called,
     response |-> [status |-> status, detail |-> detail, cause |-> cause]]

\* predict_churn: what it leaves in its locals and what it answers.
\* pre is the outcome of preprocess_customer_data on the record; p is the probability
\* the classifier gives when it does not raise.
predict_churn_result(pre, customer_id, loaded, md, p, scaler_raises, model_raises, now) ==
    LET built == <<"CustomerData", "predict_churn", "preprocess_customer_data">>
                    \o (IF pre.calls_scaler THEN <<"scaler.transform">> ELSE <<>>)
    IN
    IF ~({"model", "scaler", "label_encoders"} \subseteq loaded)
    THEN api_error("500", "Model components not properly loaded", "",
                   <<"CustomerData", "predict_churn">>)
    ELSE IF ~pre.ok
    THEN api_error("500", "Prediction failed", pre.error, built)
    ELSE IF pre.calls_scaler /\ scaler_raises
    THEN api_error("500", "Prediction failed", "scaler", built)
    ELSE IF model_raises \/ has_string(pre.final)
    THEN api_error("500", "Prediction failed", "model",
                   Append(built, "model.predict_proba"))
    ELSE IF "model_metadata" \notin loaded
    THEN api_error("500", "Prediction failed", "AttributeError",
                   Append(built, "model.predict_proba"))
    ELSE [df |-> pre.df, final |-> pre.final, p |-> p,
          calls |-> Append(built, "model.predict_proba"),
          response |-> api_decision(customer_id, p, md, now)]

\* predict_single re-raises every exception as Exception("Prediction failed: " + str(e));
\* cause is that str(e)
lib_error(cause, called) ==
    [df |-> EmptyFrame, final |-> <<>>, p |-> NoProbability, calls |-> called,
     response |-> [status |-> "raised", detail |-> "Prediction failed", cause |-> cause]]

\* ChurnPredictor.predict_single on a loaded predictor.
\* validated is the outcome of _validate_input_data on the record, pre that of
\* _preprocess_data on the validated record.
predict_single_result(validated, pre, md, p, scaler_raises, model_raises, now) ==
    LET built == <<"predict_single", "_validate_input_data", "_preprocess_data">>
                    \o (IF pre.calls_scaler THEN <<"scaler.transform">> ELSE <<>>)
    IN
    IF ~validated.ok
    THEN lib_error(validated.error, <<"predict_single", "_validate_input_data">>)
    ELSE IF ~pre.ok THEN lib_error(pre.error, built)
    ELSE IF scaler_raises THEN lib_error("scaler", built)
    ELSE IF model_raises THEN lib_error("model", Append(built, "model.predict_proba"))
    ELSE [df |-> pre.df, final |-> pre.final, p |-> p,
          calls |-> Append(built, "model.predict_proba"),
          response |-> fe_decision(p, md, now)]

----------------------------------------------------------------------------
(* Authentication of the Streamlit frontend *)

\* hashlib.sha256(password).hexdigest(): one digest per password
hash_password(password) == "sha256(" \o password \o ")"

default_password(username) ==
    CASE username = "admin" -> "churn123"
      [] username = "demo" -> "demo123"
      [] username = "user" -> "user123"

default_users == [u \in {"admin", "demo", "user"} |-> hash_password(default_password(u))]

\* load_users: the content of users.json, or the default users when there is no file
load_users(users_file) == IF users_file.exists THEN users_file.users ELSE default_users

\* create_default_users writes the file that load_users did not find
users_file_loaded(users_file) == [exists |-> TRUE, users |-> load_users(users_file)]

\* a verification that looks at the username only
verify_username(users_file, username, password) ==
    username \in DOMAIN load_users(users_file)

verify_credentials(users_file, username, password) ==
    /\ username \in DOMAIN load_users(users_file)
    /\ load_users(users_file)[username] = hash_password(password)

\* st.session_state.get("authenticated", False) and .get("username", None)
is_authenticated(session_state) ==
    IF "authenticated" \in DOMAIN session_state THEN session_state.authenticated ELSE FALSE

get_current_user(session_state) ==
    IF "username" \in DOMAIN session_state THEN session_state.username ELSE "None"

login_user(username) == [authenticated |-> TRUE, username |-> username]

logout_user == [authenticated |-> FALSE, username |-> "None"]

\* add_user and change_password write users.json
add_user(users_file, username, password) ==
    [exists |-> TRUE,
     users |-> [u \in DOMAIN load_users(users_file) \cup {username} |->
                  IF u = username THEN hash_password(password)
                  ELSE load_users(users_file)[u]]]

change_password(users_file, username, new_password) ==
    IF username \in DOMAIN load_users(users_file)
    THEN add_user(users_file, username, new_password)
    ELSE users_file_loaded(users_file)

\* what a script run puts on the page
pages == {"Churn Prediction", "EDA Analysis", "Model Details"}

content(page) == <<"user info", "title: " \o page, "content: " \o page>>

\* require_authentication: the two messages before st.stop(), or nothing
require_authentication(session_state) ==
    IF ~is_authenticated(session_state)
    THEN <<"error: Access Denied", "info: Please log in through the main page">>
    ELSE <<>>

\* app.py main
app_main(session_state, message) ==
    IF ~is_authenticated(session_state)
    THEN <<"login form">> \o message
    ELSE content("app")

\* main of the pages 1 to 3
page_main(page, session_state) ==
    IF require_authentication(session_state) # <<>>
    THEN require_authentication(session_state)
    ELSE content(page)

\* main of the admin panel: is_admin is get_current_user() == "admin"
admin_main(session_state) ==
    IF require_authentication(session_state) # <<>>
    THEN require_authentication(session_state)
    ELSE IF get_current_user(session_state) # "admin"
    THEN <<"error: Access Denied", "warning: only accessible by administrators",
           "info: Current user">>
    ELSE content("Admin Panel")

\* a run of the script of the page
script_run(page, session_state, message) ==
    IF page = "app" THEN app_main(session_state, message)
    ELSE IF page = "Admin Panel" THEN admin_main(session_state)
    ELSE page_main(page, session_state)

\* a new session on the main page of a deployment without users.json; last is the most
\* recent login or logout that went through, with the users it was verified against
FirstRun ==
    [session_state |-> [k \in {} |-> FALSE],
     users_file |-> [exists |-> FALSE, users |-> default_users],
     page |-> "app",
     rendered |-> <<"login form">>,
     last |-> [action |-> "none", username |-> "", password |-> "",
               users |-> default_users]]

----------------------------------------------------------------------------
(* The status handlers of the API *)

\* health_check: model_loaded looks at model, scaler and label_encoders only
model_loaded(loaded) == {"model", "scaler", "label_encoders"} \subseteq loaded

\* GET /health; the field health is the "status" of the body
health_check_result(loaded, md, now) ==
    [status |-> "200",
     health |-> IF model_loaded(loaded) THEN "healthy" ELSE "unhealthy",
     model_loaded |-> model_loaded(loaded),
     timestamp |-> now,
     model_info |->
        IF "model_metadata" \in loaded
        THEN [name |-> IF "model_name" \in md.keys THEN md.model_name ELSE "None",
              recall |-> IF "performance_metrics" \in md.keys THEN md.recall ELSE 0]
        ELSE [name |-> "Unknown", recall |-> "Unknown"]]

\* GET /model-info
get_model_info_result(loaded, md, features, now) ==
    IF "model_metadata" \notin loaded
    THEN [status |-> "500", detail |-> "Model metadata not loaded", cause |-> ""]
    ELSE [status |-> "200", model_details |-> md,
          feature_count |-> IF "model_features" \in loaded THEN Len(features) ELSE 0,
          model_type |-> "Logistic Regression (Recall-Optimized)",
          last_loaded |-> now]

----------------------------------------------------------------------------
(* The batch handlers *)

\* main.py: len(customers) > 100 is refused
BatchLimit == 100

\* customer_id=f"batch_{i}" of enumerate(customers), for the row at position i of 1..n
batch_id(i) == "batch_" \o ToString(i - 1)

\* predict_churn_batch, one turn of the loop: the prediction, or the error entry when
\* predict_churn raised; error is str(e), the detail with the cause it ends with
api_batch_entry(out, i) ==
    IF out.response.status = "200"
    THEN out.response
    ELSE [customer_id |-> batch_id(i),
          error |-> [detail |-> out.response.detail, cause |-> out.response.cause],
          churn_probability |-> "None", churn_prediction |-> "Error"]

\* a loop that keeps no entry for a row whose prediction raised
api_batch_predictions_skipping(outs) ==
    SelectSeq([i \in 1..Len(outs) |-> api_batch_entry(outs[i], i)],
              LAMBDA entry : "error" \notin DOMAIN entry)

\* predict_churn_batch: the list predictions after the loop; outs[i] is what
\* predict_churn does with customers[i]
api_batch_predictions(outs) ==
    [i \in 1..Len(outs) |-> api_batch_entry(outs[i], i)]

\* predict_churn_batch on a body the framework has parsed
\* a handler without the check of the batch size
predict_churn_batch_result_unlimited(customers, outs, now) ==
    [status |-> "200", batch_size |-> Len(customers),
     predictions |-> api_batch_predictions(outs), timestamp |-> now]

predict_churn_batch_result(customers, outs, now) ==
    IF Len(customers) > BatchLimit
    THEN [status |-> "400", detail |-> "Batch size limited to 100 customers", cause |-> ""]
    ELSE [status |-> "200", batch_size |-> Len(customers),
          predictions |-> api_batch_predictions(outs), timestamp |-> now]

\* predict_batch, one turn of the loop: the result with its customer_id, or the error
\* entry when predict_single raised
fe_batch_entry(out, i) ==
    IF out.response.status = "ok"
    THEN [customer_id |-> i] @@ out.response
    ELSE [customer_id |-> i,
          error |-> [detail |-> out.response.detail, cause |-> out.response.cause],
          prediction |-> "None"]

\* ChurnPredictor.predict_batch: the list results
predict_batch_result(outs) ==
    [status |-> "ok", results |-> [i \in 1..Len(outs) |-> fe_batch_entry(outs[i], i)]]

----------------------------------------------------------------------------
(* Actions *)

\* the API process starts: startup_event calls load_model_components
startup_event ==
    /\ ~api_started
    /\ api_started' = TRUE
    /\ api_loaded' = load_model_components(models_dir.present)
    /\ UNCHANGED <<models_dir, predictor, request, df, processed_data,
                   churn_probability, response, calls, clock, callers, frontend>>

\* get_predictor(): the first successful call constructs the predictor
get_predictor ==
    /\ request.path = "none"
    /\ predictor' = IF predictor = "None" THEN ChurnPredictor(models_dir.present)
                    ELSE predictor
    /\ UNCHANGED <<models_dir, api_started, api_loaded, request, df, processed_data,
                   churn_probability, response, calls, clock, callers, frontend>>

\* a client sends one record to POST /predict, or calls predict_single with it
Submit(records) ==
    /\ request.path = "none"
    /\ \E path \in {"api", "lib"}, data \in records :
          /\ path = "api" => api_started
          /\ path = "lib" => predictor = "instance"
          /\ request' = [path |-> path, data |-> data]
    /\ UNCHANGED <<models_dir, api_started, api_loaded, predictor, df, processed_data,
                   churn_probability, response, calls, clock, callers, frontend>>

\* a caller hands predict_single a record that no JSON parser has seen
CallPredictor(records) ==
    /\ request.path = "none"
    /\ predictor = "instance"
    /\ \E data \in records : request' = [path |-> "lib", data |-> data]
    /\ UNCHANGED <<models_dir, api_started, api_loaded, predictor, df, processed_data,
                   churn_probability, response, calls, clock, callers, frontend>>

\* POST /predict: the schema check of the framework, then predict_churn
predict_churn(probabilities) ==
    /\ request.path = "api"
    /\ response.status = "none"
    /\ \E pre \in {IF customer_data_valid(request.data)
                     THEN preprocess_customer_data(request.data, models_dir.label_encoders,
                                                   models_dir.model_features,
                                                   "model_features" \in api_loaded)
                     ELSE not_preprocessed("ValidationError")},
          p \in probabilities, scaler_raises \in BOOLEAN, model_raises \in BOOLEAN :
             LET out == IF pre.error # "ValidationError"
                        THEN predict_churn_result(pre, "None", api_loaded,
                                                  models_dir.model_metadata, p,
                                                  scaler_raises, model_raises, clock)
                        ELSE api_error("422", "validation error", pre.error,
                                       <<"CustomerData">>)
             IN  /\ df' = out.df
                 /\ processed_data' = out.final
                 /\ churn_probability' = out.p
                 /\ response' = out.response
                 /\ calls' = out.calls
    /\ UNCHANGED <<models_dir, api_started, api_loaded, predictor, request, clock, callers, frontend>>

\* ChurnPredictor.predict_single
predict_single(probabilities) ==
    /\ request.path = "lib"
    /\ response.status = "none"
    /\ \E validated \in {validate_input_data(request.data)},
          pre \in {IF missing_fields(request.data) = <<>>
                   THEN preprocess_data(cleaned_data(request.data),
                                        models_dir.label_encoders, models_dir.model_features)
                   ELSE not_preprocessed("ValueError")},
          p \in probabilities, scaler_raises \in BOOLEAN, model_raises \in BOOLEAN :
             LET out == predict_single_result(validated, pre, models_dir.model_metadata,
                                              p, scaler_raises, model_raises, clock)
             IN  /\ df' = out.df
                 /\ processed_data' = out.final
                 /\ churn_probability' = out.p
                 /\ response' = out.response
                 /\ calls' = out.calls
    /\ UNCHANGED <<models_dir, api_started, api_loaded, predictor, request, clock, callers, frontend>>

\* a client sends a list of records to POST /predict/batch, or calls predict_batch
\* what the loop of predict_churn_batch has called for its rows from to to: predict_churn
\* as a function, row after row
RECURSIVE api_batch_loop_calls(_, _, _)
api_batch_loop_calls(outs, from, to) ==
    IF from > to THEN <<>>
    ELSE IF from = to THEN Tail(outs[from].calls)
    ELSE api_batch_loop_calls(outs, from, (from + to) \div 2)
            \o api_batch_loop_calls(outs, (from + to) \div 2 + 1, to)

predict_churn_batch_calls(customers, outs) ==
    <<"List[CustomerData]", "predict_churn_batch">>
       \o (IF Len(customers) > BatchLimit THEN <<>>
           ELSE api_batch_loop_calls(outs, 1, Len(outs)))

SubmitBatch(batches) ==
    /\ request.path = "none"
    /\ \E path \in {"api_batch", "lib_batch"}, customers \in batches :
          /\ path = "api_batch" => api_started
          /\ path = "lib_batch" => predictor = "instance"
          /\ request' = [path |-> path, batch |-> customers]
    /\ UNCHANGED <<models_dir, api_started, api_loaded, predictor, df, processed_data,
                   churn_probability, response, calls, clock, callers, frontend>>

\* POST /predict/batch: the framework parses List[CustomerData], then
\* predict_churn_batch. The scaler or the classifier raises on the rows of failing.
predict_churn_batch(probabilities, patterns) ==
    /\ request.path = "api_batch"
    /\ response.status = "none"
    /\ \E pres \in {[r \in SeqToSet(request.batch) |->
                        IF customer_data_valid(r)
                        THEN preprocess_customer_data(r, models_dir.label_encoders,
                                                      models_dir.model_features,
                                                      "model_features" \in api_loaded)
                        ELSE not_preprocessed("ValidationError")]},
          p \in probabilities, failing \in patterns, failure \in {"scaler", "model"} :
             LET outs == [i \in 1..Len(request.batch) |->
                            predict_churn_result(pres[request.batch[i]], batch_id(i),
                                                 api_loaded, models_dir.model_metadata, p,
                                                 i \in failing /\ failure = "scaler",
                                                 i \in failing /\ failure = "model",
                                                 clock)]
                 valid == \A i \in 1..Len(request.batch) :
                             customer_data_valid(request.batch[i])
             IN  /\ response' =
                       IF valid
                       THEN predict_churn_batch_result(request.batch, outs, clock)
                       ELSE [status |-> "422", detail |-> "validation error",
                             cause |-> "ValidationError"]
                 /\ calls' = IF valid THEN predict_churn_batch_calls(request.batch, outs)
                             ELSE <<"List[CustomerData]">>
    /\ UNCHANGED <<models_dir, api_started, api_loaded, predictor, request, df,
                   processed_data, churn_probability, clock, callers, frontend>>

\* ChurnPredictor.predict_batch
predict_batch(probabilities, patterns) ==
    /\ request.path = "lib_batch"
    /\ response.status = "none"
    /\ \E pres \in {[r \in SeqToSet(request.batch) |->
                        IF missing_fields(r) = <<>>
                        THEN preprocess_data(cleaned_data(r), models_dir.label_encoders,
                                             models_dir.model_features)
                        ELSE not_preprocessed("ValueError")]},
          p \in probabilities, failing \in patterns, failure \in {"scaler", "model"} :
             LET outs == [i \in 1..Len(request.batch) |->
                            predict_single_result(validate_input_data(request.batch[i]),
                                                  pres[request.batch[i]],
                                                  models_dir.model_metadata, p,
                                                  i \in failing /\ failure = "scaler",
                                                  i \in failing /\ failure = "model",
                                                  clock)]
             IN  /\ response' = predict_batch_result(outs)
                 /\ calls' = <<"predict_batch">>
    /\ UNCHANGED <<models_dir, api_started, api_loaded, predictor, request, df,
                   processed_data, churn_probability, clock, callers, frontend>>

\* GET /health
health_check ==
    /\ request.path = "none"
    /\ api_started
    /\ request' = [path |-> "health"]
    /\ response' = health_check_result(api_loaded, models_dir.model_metadata, clock)
    /\ calls' = <<"health_check">>
    /\ UNCHANGED <<models_dir, api_started, api_loaded, predictor, df, processed_data,
                   churn_probability, clock, callers, frontend>>

\* GET /model-info
get_model_info ==
    /\ request.path = "none"
    /\ api_started
    /\ request' = [path |-> "model-info"]
    /\ response' = get_model_info_result(api_loaded, models_dir.model_metadata,
                                         models_dir.model_features, clock)
    /\ calls' = <<"get_model_info">>
    /\ UNCHANGED <<models_dir, api_started, api_loaded, predictor, df, processed_data,
                   churn_probability, clock, callers, frontend>>

\* the answer reaches the caller; the handler's locals are gone
Return ==
    /\ response.status # "none"
    /\ request' = [path |-> "none"]
    /\ df' = EmptyFrame
    /\ processed_data' = <<>>
    /\ churn_probability' = NoProbability
    /\ response' = [status |-> "none"]
    /\ calls' = <<>>
    /\ UNCHANGED <<models_dir, api_started, api_loaded, predictor, clock, callers, frontend>>

\* time passes
\* get_predictor, statement by statement, for caller c.
\* `if _predictor is None`
get_predictor_test(c) ==
    /\ callers.pc[c] = "idle"
    /\ callers' = [callers EXCEPT
                      !.pc[c] = IF callers.current = 0 THEN "construct" ELSE "return"]
    /\ UNCHANGED <<models_dir, api_started, api_loaded, predictor, request, df,
                   processed_data, churn_probability, response, calls, clock, frontend>>

\* `ChurnPredictor()`: a new instance, or the exception of the loader leaves the call
get_predictor_construct(c) ==
    /\ callers.pc[c] = "construct"
    /\ callers' = IF ChurnPredictor(models_dir.present) = "instance"
                  THEN [callers EXCEPT !.pc[c] = "assign",
                                       !.local[c] = callers.made + 1,
                                       !.made = callers.made + 1]
                  ELSE [callers EXCEPT !.pc[c] = "raised"]
    /\ UNCHANGED <<models_dir, api_started, api_loaded, predictor, request, df,
                   processed_data, churn_probability, response, calls, clock, frontend>>

\* `_predictor = ...`
get_predictor_assign(c) ==
    /\ callers.pc[c] = "assign"
    /\ callers' = [callers EXCEPT !.pc[c] = "return", !.current = callers.local[c]]
    /\ predictor' = "instance"
    /\ UNCHANGED <<models_dir, api_started, api_loaded, request, df,
                   processed_data, churn_probability, response, calls, clock, frontend>>

\* `return _predictor`: the global is read again
get_predictor_return(c) ==
    /\ callers.pc[c] = "return"
    /\ callers' = [callers EXCEPT !.pc[c] = "returned", !.got[c] = callers.current]
    /\ UNCHANGED <<models_dir, api_started, api_loaded, predictor, request, df,
                   processed_data, churn_probability, response, calls, clock, frontend>>

\* the caller is outside get_predictor again and may call it once more
get_predictor_again(c) ==
    /\ callers.pc[c] \in {"returned", "raised"}
    /\ callers' = [callers EXCEPT !.pc[c] = "idle", !.local[c] = 0, !.got[c] = 0]
    /\ UNCHANGED <<models_dir, api_started, api_loaded, predictor, request, df,
                   processed_data, churn_probability, response, calls, clock, frontend>>

\* the missing artifact files are put into the models directory
restore_artifacts ==
    /\ models_dir.present # SeqToSet(components)
    /\ models_dir' = [models_dir EXCEPT !.present = SeqToSet(components)]
    /\ UNCHANGED <<api_started, api_loaded, predictor, request, df,
                   processed_data, churn_probability, response, calls, clock, callers, frontend>>

\* the login form of the main page is submitted
show_login_form(usernames, passwords) ==
    /\ frontend.page = "app"
    /\ ~is_authenticated(frontend.session_state)
    /\ \E username \in usernames, password \in passwords :
          frontend' =
             IF username = "" \/ password = ""
             THEN [frontend EXCEPT
                     !.rendered = app_main(frontend.session_state,
                                           <<"error: enter both username and password">>)]
             ELSE IF verify_credentials(frontend.users_file, username, password)
             THEN [frontend EXCEPT
                     !.session_state = login_user(username),
                     !.users_file = users_file_loaded(frontend.users_file),
                     !.rendered = app_main(login_user(username), <<>>),
                     !.last = [action |-> "login", username |-> username,
                               password |-> password,
                               users |-> load_users(frontend.users_file)]]
             ELSE [frontend EXCEPT
                     !.users_file = users_file_loaded(frontend.users_file),
                     !.rendered = app_main(frontend.session_state,
                                           <<"error: Invalid username or password">>)]
    /\ UNCHANGED <<models_dir, api_started, api_loaded, predictor, request, df,
                   processed_data, churn_probability, response, calls, clock, callers>>

\* the logout button of the sidebar; the sidebar is there when the page has its content
show_user_info ==
    /\ frontend.rendered = content(frontend.page)
    /\ frontend' =
          [frontend EXCEPT
             !.session_state = logout_user,
             !.rendered = script_run(frontend.page, logout_user, <<>>),
             !.last = [action |-> "logout", username |-> "", password |-> "",
                       users |-> load_users(frontend.users_file)]]
    /\ UNCHANGED <<models_dir, api_started, api_loaded, predictor, request, df,
                   processed_data, churn_probability, response, calls, clock, callers>>

\* the session goes to a page of the sidebar
open_page ==
    /\ \E page \in pages \cup {"app", "Admin Panel"} :
          frontend' = [frontend EXCEPT
                         !.page = page,
                         !.rendered = script_run(page, frontend.session_state, <<>>)]
    /\ UNCHANGED <<models_dir, api_started, api_loaded, predictor, request, df,
                   processed_data, churn_probability, response, calls, clock, callers>>

\* the forms of show_user_management on the admin panel
show_user_management(usernames, passwords) ==
    /\ frontend.page = "Admin Panel"
    /\ frontend.rendered = content("Admin Panel")
    /\ \E username \in usernames, password \in passwords, form \in {"add", "change"} :
          /\ password # ""
          /\ form = "add" =>
                username # "" /\ username \notin DOMAIN load_users(frontend.users_file)
          /\ form = "change" => username \in DOMAIN load_users(frontend.users_file)
          /\ frontend' =
                [frontend EXCEPT
                   !.users_file =
                       IF form = "add"
                       THEN add_user(frontend.users_file, username, password)
                       ELSE change_password(frontend.users_file, username, password)]
    /\ UNCHANGED <<models_dir, api_started, api_loaded, predictor, request, df,
                   processed_data, churn_probability, response, calls, clock, callers>>

Tick(last) ==
    /\ clock < last
    /\ clock' = clock + 1
    /\ UNCHANGED <<models_dir, api_started, api_loaded, predictor, request, df,
                   processed_data, churn_probability, response, calls, callers, frontend>>

----------------------------------------------------------------------------
(* Artifacts the models directory may hold *)

three_way == <<"No", "No internet service", "Yes">>

\* encoders fitted on the labels preprocess_customer_data derives
trained_encoders ==
    [gender |-> <<"Female", "Male">>,
     SeniorCitizen_Label |-> <<"No", "Yes">>,
     Partner |-> <<"No", "Yes">>,
     Dependents |-> <<"No", "Yes">>,
     PhoneService |-> <<"No", "Yes">>,
     MultipleLines |-> <<"No", "No phone service", "Yes">>,
     InternetService |-> <<"DSL", "Fiber optic", "No">>,
     OnlineSecurity |-> three_way,
     OnlineBackup |-> three_way,
     DeviceProtection |-> three_way,
     TechSupport |-> three_way,
     StreamingTV |-> three_way,
     StreamingMovies |-> three_way,
     Contract |-> <<"Month-to-month", "One year", "Two year">>,
     PaperlessBilling |-> <<"No", "Yes">>,
     PaymentMethod |-> <<"Bank transfer (automatic)", "Credit card (automatic)",
                         "Electronic check", "Mailed check">>,
     LifeStage |-> <<"Senior Couple", "Senior Individual", "Young Couple",
                     "Young Family", "Young Individual">>,
     TenureCategory |-> <<"Established_Customer", "Long_Term_Customer", "New_Customer">>]

\* the same, fitted on the labels _preprocess_data derives
relabelled_encoders ==
    [trained_encoders EXCEPT
        !.LifeStage = <<"Couple", "Family", "Single">>,
        !.TenureCategory = <<"Long-term", "Medium-term", "Short-term">>]

\* a dict that lacks some encoders
partial_encoders ==
    [name \in DOMAIN trained_encoders \ {"MultipleLines", "LifeStage"} |->
        trained_encoders[name]]

\* encoders saved without the one of the senior-citizen label
encoders_without_senior ==
    [f \in DOMAIN trained_encoders \ {"SeniorCitizen_Label"} |-> trained_encoders[f]]

trained_features ==
    <<"tenure", "MonthlyCharges", "ServiceAdoptionScore", "MonthlyChargesPerService",
      "SecurityBundle", "StreamingBundle", "HasFiberOptic", "HasInternet",
      "SeniorCitizen_Label_encoded", "MultipleLines_encoded", "InternetService_encoded",
      "OnlineSecurity_encoded", "LifeStage_encoded", "TenureCategory_encoded">>

\* a feature list naming a column neither builder derives
drifted_features == Append(trained_features, "ContractRenewals")

numeric_only_features == <<"tenure", "MonthlyCharges", "TotalCharges">>

metadata_keys == {"recommended_threshold", "model_name", "performance_metrics", "version"}

\* a metadata dict that holds a recommended threshold
Metadata(threshold) ==
    [keys |-> metadata_keys, recommended_threshold |-> threshold,
     model_name |-> "Logistic Regression", recall |-> 917, version |-> "1.0.0"]

\* a metadata dict without the key recommended_threshold
metadata_without_threshold ==
    [Metadata(0) EXCEPT !.keys = metadata_keys \ {"recommended_threshold"}]

ModelsDir(present, encoders, features, metadata) ==
    [present |-> present, label_encoders |-> encoders, model_features |-> features,
     model_metadata |-> metadata]

\* every file loads, or exactly one does not
PresentSets ==
    {SeqToSet(components)} \cup {SeqToSet(components) \ {c} : c \in SeqToSet(components)}

----------------------------------------------------------------------------
(* Requests *)

\* the example of the request schema
example_record ==
    [gender |-> Str("Female"), SeniorCitizen |-> Num(1), Partner |-> Str("No"),
     Dependents |-> Str("No"), tenure |-> Num(2), PhoneService |-> Str("Yes"),
     MultipleLines |-> Str("No"), InternetService |-> Str("Fiber optic"),
     OnlineSecurity |-> Str("No"), OnlineBackup |-> Str("No"),
     DeviceProtection |-> Str("No"), TechSupport |-> Str("No"),
     StreamingTV |-> Str("Yes"), StreamingMovies |-> Str("Yes"),
     Contract |-> Str("Month-to-month"), PaperlessBilling |-> Str("Yes"),
     PaymentMethod |-> Str("Electronic check"), MonthlyCharges |-> Quot(8525, 100),
     TotalCharges |-> Quot(17050, 100)]

premium_services ==
    <<"OnlineSecurity", "OnlineBackup", "DeviceProtection", "TechSupport",
      "StreamingTV", "StreamingMovies">>

\* the six service flags: 'Yes' on the services of yes, otherwise the value no
WithServices(record, yes, no) ==
    [f \in DOMAIN record |->
        IF f \in SeqToSet(premium_services)
        THEN IF f \in yes THEN Str("Yes") ELSE Str(no)
        ELSE record[f]]

MaxCharge == 2
MaxOffset == 2
MaxClock == 1

\* phone service with the values of multiple lines, one of them unknown to the encoders
PhoneChoices ==
    {<<"Yes", "Yes">>, <<"Yes", "No">>, <<"No", "No phone service">>, <<"Yes", "Unknown">>}

\* the records of the feature-builder specification
FeatureRecords ==
    {[WithServices(example_record, yes, "No") EXCEPT
         !["PhoneService"] = Str(phone[1]),
         !["MultipleLines"] = Str(phone[2]),
         !["InternetService"] = Str(internet),
         !["MonthlyCharges"] = Num(charge)] :
       yes \in SUBSET SeqToSet(premium_services),
       phone \in PhoneChoices,
       internet \in {"DSL", "Fiber optic", "No"},
       charge \in 0..MaxCharge}
    \cup
    {[WithServices(example_record, {}, "No internet service") EXCEPT
         !["InternetService"] = Str(internet),
         !["MonthlyCharges"] = Num(charge)] :
       internet \in {"DSL", "No"}, charge \in 0..MaxCharge}

\* tenures at and around the bounds of the bands, and the ends of the schema's range
Tenures == {0, 11, 12, 13, 35, 36, 37, 100}

\* the records of the demographics specification; the schema admits the flags 0 and 1
DemographicRecords ==
    {[example_record EXCEPT
         !["SeniorCitizen"] = Num(senior),
         !["Partner"] = Str(partner),
         !["Dependents"] = Str(dependents),
         !["tenure"] = Num(tenure)] :
       senior \in {0, 1, 2}, partner \in yes_no, dependents \in yes_no,
       tenure \in Tenures}

\* the record without one of its fields
Without(record, field) == [f \in DOMAIN record \ {field} |-> record[f]]

\* the fields that hold a category
categorical_fields == SeqToSet(required_fields) \ SeqToSet(numeric_fields)

\* records a JSON body can hold: the example, the example without one or two of its
\* fields, and the example with a category outside the field's domain
SchemaRecords ==
    {example_record}
    \cup {Without(example_record, f) : f \in SeqToSet(required_fields)}
    \cup {Without(Without(example_record, "gender"), "TotalCharges")}
    \cup {[example_record EXCEPT ![f] = Str("Unknown")] : f \in categorical_fields}

\* records with a numeric field that holds a string or None. What the API's parser makes
\* of such a value depends on the release of the schema library, so these records are
\* handed to predict_single only.
DirtyRecords ==
    {[example_record EXCEPT ![f] = v] :
        f \in SeqToSet(numeric_fields),
        v \in {Str("abc"), Str(""), Str("12"), Str(" 170 "), NoneCell}}
    \cup {[example_record EXCEPT !["tenure"] = Str("abc"), !["TotalCharges"] = Str(" 170 ")],
          [example_record EXCEPT !["MonthlyCharges"] = NoneCell, !["SeniorCitizen"] = Str("x")]}

\* batch sizes: empty, small, and around the limit of the API
BatchSizes == {0, 1, 2, 3, BatchLimit - 1, BatchLimit, BatchLimit + 1}

\* sets of rows of a batch: none, the first, the last, every other one, all
RowPatterns ==
    {{}, {1}} \cup {{n} : n \in BatchSizes} \cup {{i \in 1..(BatchLimit + 1) : i % 2 = 1}}
    \cup {1..(BatchLimit + 1)}

\* a record the builders encode with a fallback, and one predict_single refuses
unknown_lines_record == [example_record EXCEPT !["MultipleLines"] = Str("Unknown")]
incomplete_record == Without(example_record, "TotalCharges")

\* what the classifier gives the rows of a batch
BatchProbabilities == {53500}

\* batches of the example record, with another record on the rows of a pattern
Batches ==
    {[i \in 1..n |-> IF i \in where THEN other ELSE example_record] :
        n \in BatchSizes, where \in {{}, {1}, {2}, 1..(BatchLimit + 1)},
        other \in {unknown_lines_record, incomplete_record}}

\* the cut points of both decision policies and the thresholds the metadata may hold
Thresholds == {30000, 53500, 60000, 90000}
CutPoints == {0, 20000, 30000, 40000, 50000, 53500, 60000, 80000, 100000} \cup Thresholds

\* probabilities at and around every cut point
Probabilities ==
    {p \in UNION {(c - MaxOffset)..(c + MaxOffset) : c \in CutPoints} :
        p >= 0 /\ p <= 100000}

----------------------------------------------------------------------------
(* Specifications *)

Idle ==
    /\ api_started = FALSE
    /\ api_loaded = {}
    /\ predictor = "None"
    /\ request = [path |-> "none"]
    /\ df = EmptyFrame
    /\ processed_data = <<>>
    /\ churn_probability = NoProbability
    /\ response = [status |-> "none"]
    /\ calls = <<>>
    /\ clock = 0
    /\ callers = NoCallers
    /\ frontend = FirstRun

\* the decision policy: one record, every threshold, probabilities around the cut points
Init ==
    /\ models_dir \in
         {ModelsDir(present, trained_encoders, trained_features, metadata) :
            present \in PresentSets,
            metadata \in {Metadata(threshold) : threshold \in Thresholds}
                         \cup {metadata_without_threshold}}
    /\ Idle

Next ==
    \/ startup_event
    \/ get_predictor
    \/ Submit({example_record})
    \/ predict_churn(Probabilities)
    \/ predict_single(Probabilities)
    \/ Return
    \/ Tick(MaxClock)

Spec == Init /\ [][Next]_vars

\* the feature builders: many records and artifact sets, one probability
InitFeatures ==
    /\ models_dir \in
         {ModelsDir(SeqToSet(components), artifacts[1], artifacts[2], Metadata(53500)) :
            artifacts \in {<<trained_encoders, trained_features>>,
                           <<relabelled_encoders, trained_features>>,
                           <<partial_encoders, trained_features>>,
                           <<trained_encoders, drifted_features>>,
                           <<trained_encoders, numeric_only_features>>}}
    /\ Idle

NextFeatures ==
    \/ startup_event
    \/ get_predictor
    \/ Submit(FeatureRecords)
    \/ predict_churn({53500})
    \/ predict_single({53500})
    \/ Return

SpecFeatures == InitFeatures /\ [][NextFeatures]_vars

\* the demographic features: seniority, partner, dependents and tenure vary
InitRecords ==
    /\ models_dir \in
         {ModelsDir(SeqToSet(components), encoders, trained_features, Metadata(53500)) :
            encoders \in {trained_encoders, relabelled_encoders, partial_encoders,
                          encoders_without_senior}}
    /\ Idle

NextRecords ==
    \/ startup_event
    \/ get_predictor
    \/ Submit(DemographicRecords)
    \/ predict_churn({53500})
    \/ predict_single({53500})
    \/ Return

SpecRecords == InitRecords /\ [][NextRecords]_vars

\* input validation: records with missing fields, foreign categories, dirty numbers
InitValidation ==
    /\ models_dir \in
         {ModelsDir(present, trained_encoders, trained_features, Metadata(53500)) :
            present \in PresentSets}
    /\ Idle

NextValidation ==
    \/ startup_event
    \/ get_predictor
    \/ Submit(SchemaRecords)
    \/ CallPredictor(DirtyRecords)
    \/ predict_churn({53500})
    \/ predict_single({53500})
    \/ Return

SpecValidation == InitValidation /\ [][NextValidation]_vars

\* the batch handlers
InitBatch ==
    /\ models_dir \in
         {ModelsDir(present, trained_encoders, features, Metadata(53500)) :
            present \in PresentSets, features \in {trained_features, drifted_features}}
    /\ Idle

NextBatch ==
    \/ startup_event
    \/ get_predictor
    \/ SubmitBatch(Batches)
    \/ predict_churn_batch(BatchProbabilities, RowPatterns)
    \/ predict_batch(BatchProbabilities, RowPatterns)
    \/ Return

SpecBatch == InitBatch /\ [][NextBatch]_vars

\* the life of the two processes: loading, status requests, predictions
SmallBatches ==
    {<<>>, <<example_record>>, <<example_record, unknown_lines_record>>}

InitLifecycle ==
    /\ models_dir \in
         {ModelsDir(present, trained_encoders, trained_features, metadata) :
            present \in PresentSets,
            metadata \in {Metadata(53500), metadata_without_threshold}}
    /\ Idle

NextLifecycle ==
    \/ startup_event
    \/ \E c \in Callers :
          \/ get_predictor_test(c)
          \/ get_predictor_construct(c)
          \/ get_predictor_assign(c)
          \/ get_predictor_return(c)
          \/ get_predictor_again(c)
    \/ restore_artifacts
    \/ health_check
    \/ get_model_info
    \/ Submit({example_record})
    \/ SubmitBatch(SmallBatches)
    \/ predict_churn({53500})
    \/ predict_single({53500})
    \/ predict_churn_batch({53500}, {{}, {1}})
    \/ predict_batch({53500}, {{}, {1}})
    \/ Return
    \/ Tick(MaxClock)

SpecLifecycle == InitLifecycle /\ [][NextLifecycle]_vars

\* one session of the frontend: logins, logouts, pages, the admin's forms
Usernames == {"", "admin", "demo", "guest"}
Passwords == {"", "churn123", "demo123", "secret"}

InitSession ==
    /\ models_dir = ModelsDir(SeqToSet(components), trained_encoders, trained_features,
                              Metadata(53500))
    /\ Idle

NextSession ==
    \/ show_login_form(Usernames, Passwords)
    \/ show_user_info
    \/ open_page
    \/ show_user_management(Usernames, Passwords)

SpecSession == InitSession /\ [][NextSession]_vars

----------------------------------------------------------------------------
(* Properties *)

\* predict_churn answered with a ChurnPrediction
ApiAnswered == request.path = "api" /\ response.status = "200"

\* predict_single returned its dict
LibAnswered == request.path = "lib" /\ response.status = "ok"

Answered == ApiAnswered \/ LibAnswered

Handled == response.status # "none"

\* the handler failed because the scaler or the classifier raised
ExternalFailure ==
    response.status \in {"500", "raised"} /\ response.cause \in {"scaler", "model"}

\* the record is a valid raw record, and the serving process holds every artifact
ValidRequest ==
    /\ customer_data_valid(request.data)
    /\ request.path = "api" => api_loaded = SeqToSet(components)

ThresholdConfigured == "recommended_threshold" \in models_dir.model_metadata.keys

\* the label, as one word for both answers
Label == IF ApiAnswered THEN response.churn_prediction
         ELSE IF response.prediction = 1 THEN "Will Churn" ELSE "Will Stay"

Confidence == IF ApiAnswered THEN response.confidence_level ELSE response.confidence

\* C1 (as claimed): in both serving paths the label is "will churn" exactly when the
\* probability is at least the threshold T the metadata configures, p = T included.
C1_LabelIffAtLeastThreshold ==
    (Answered /\ ThresholdConfigured) =>
        (Label = "Will Churn"
            <=> churn_probability >= models_dir.model_metadata.recommended_threshold)

\* C1, the part that holds: predict_churn labels with p >= T.
C1_ApiLabel ==
    (ApiAnswered /\ ThresholdConfigured) =>
        (Label = "Will Churn"
            <=> churn_probability >= models_dir.model_metadata.recommended_threshold)

\* C2 (as claimed): predict_churn gives High Risk iff p >= 0.80, otherwise Medium Risk
\* iff p >= T, otherwise Low Risk, T being the threshold that decided the label.
C2_MediumRiskFromThreshold ==
    (ApiAnswered /\ ThresholdConfigured) =>
        /\ response.model_info.threshold_used
              = models_dir.model_metadata.recommended_threshold
        /\ response.risk_category =
              IF churn_probability >= 80000 THEN "High Risk"
              ELSE IF churn_probability >= models_dir.model_metadata.recommended_threshold
              THEN "Medium Risk"
              ELSE "Low Risk"

\* C2, the part that holds: High Risk iff p >= 0.80, and the threshold reported is the
\* one the metadata configures.
C2_ApiHighRisk ==
    (ApiAnswered /\ ThresholdConfigured) =>
        /\ response.model_info.threshold_used
              = models_dir.model_metadata.recommended_threshold
        /\ response.risk_category = "High Risk" <=> churn_probability >= 80000

\* C3 (as claimed): in both serving paths p = 0.80 is High Risk and, with T = 0.535,
\* p = 0.535 is Medium Risk.
C3_InclusiveRiskBounds ==
    Answered =>
        /\ churn_probability = 80000 => response.risk_category = "High Risk"
        /\ (churn_probability = 53500 /\ ThresholdConfigured
               /\ models_dir.model_metadata.recommended_threshold = 53500)
             => response.risk_category = "Medium Risk"

\* C3, the part that holds: the bounds of predict_churn are inclusive.
C3_ApiInclusive ==
    ApiAnswered =>
        /\ churn_probability = 80000 => response.risk_category = "High Risk"
        /\ churn_probability = 53500 => response.risk_category = "Medium Risk"

\* C4 (as claimed): in both serving paths the confidence is High iff p >= 0.8 or
\* p <= 0.2, otherwise Medium iff p >= 0.6 or p <= 0.4, otherwise Low.
C4_ConfidenceFromProbability ==
    Answered =>
        Confidence =
            IF churn_probability >= 80000 \/ churn_probability <= 20000 THEN "High"
            ELSE IF churn_probability >= 60000 \/ churn_probability <= 40000 THEN "Medium"
            ELSE "Low"

\* C4, the part that holds: the confidence level of predict_churn.
C4_ApiConfidence ==
    ApiAnswered =>
        Confidence =
            IF churn_probability >= 80000 \/ churn_probability <= 20000 THEN "High"
            ELSE IF churn_probability >= 60000 \/ churn_probability <= 40000 THEN "Medium"
            ELSE "Low"

\* C5 (as claimed): when the metadata holds no recommended threshold, predict_churn
\* decides the label with 0.535 and reports 0.535 as the threshold used.
C5_DefaultThreshold ==
    (ApiAnswered /\ ~ThresholdConfigured) =>
        /\ response.model_info.threshold_used = 53500
        /\ Label = "Will Churn" <=> churn_probability >= 53500

\* the column names of a feature vector
Names(final) == [i \in 1..Len(final) |-> final[i].name]

\* C6 (as claimed): for a valid record and any feature list, either builder returns a
\* vector whose columns are model_features, in that order.
C6_VectorShape ==
    (Handled /\ ValidRequest /\ ~ExternalFailure) =>
        /\ Answered
        /\ Names(processed_data) = models_dir.model_features

\* C6, the part that holds: a vector that is returned has the columns model_features.
C6_ReturnedShape ==
    Answered => Names(processed_data) = models_dir.model_features

\* the columns the builder of the request's path derives
Populated ==
    IF request.path = "api"
    THEN DOMAIN api_frame(request.data, models_dir.label_encoders)
    ELSE DOMAIN fe_frame(cleaned_data(request.data), models_dir.label_encoders)

\* C7 (as claimed): a model feature the builder did not populate never fails the
\* prediction; the builder gives it the value 0.
C7_UnpopulatedIsZero ==
    (Handled /\ ValidRequest /\ ~ExternalFailure) =>
        /\ Answered
        /\ \A i \in 1..Len(models_dir.model_features) :
              models_dir.model_features[i] \notin Populated
                 => df[models_dir.model_features[i]] = Num(0)

\* C7, the part that holds: _preprocess_data fills an unpopulated feature with 0.
C7_LibUnpopulatedIsZero ==
    (request.path = "lib" /\ Handled /\ ValidRequest /\ ~ExternalFailure) =>
        /\ Answered
        /\ \A i \in 1..Len(models_dir.model_features) :
              models_dir.model_features[i] \notin Populated
                 => df[models_dir.model_features[i]] = Num(0)

\* the column f of the frame has an encoder, and its value is none of the encoder's classes
Unseen(f) ==
    /\ f \in DOMAIN df
    /\ f \in DOMAIN models_dir.label_encoders
    /\ ~(df[f].kind = "str" /\ df[f].s \in SeqToSet(models_dir.label_encoders[f]))

\* the label _preprocess_data derives is none of the classes of its encoder
UnseenDerived(f, label) ==
    /\ f \in DOMAIN models_dir.label_encoders
    /\ label \notin SeqToSet(models_dir.label_encoders[f])

\* the record holds a category some encoder of the request's path has not seen
HasUnseen ==
    IF request.path = "api"
    THEN LET frame == api_engineered(request.data)
         IN  \E f \in SeqToSet(categorical_features) \cap DOMAIN models_dir.label_encoders :
                frame[f].s \notin SeqToSet(models_dir.label_encoders[f])
    ELSE \/ \E f \in SeqToSet(categorical_mappings) \cap DOMAIN models_dir.label_encoders :
                request.data[f].s \notin SeqToSet(models_dir.label_encoders[f])
         \/ UnseenDerived("LifeStage", fe_life_stage(request.data))
         \/ UnseenDerived("TenureCategory", fe_tenure_cat(request.data["tenure"]))

C9_ChargesPerService ==
    Answered =>
        df["MonthlyChargesPerService"] =
            Quot(df["MonthlyCharges"].n,
                 df["MonthlyCharges"].d * (df["ServiceAdoptionScore"].n + 1))

\* C9, the part that holds: preprocess_customer_data divides by the score plus one.
C9_ApiChargesPerService ==
    ApiAnswered =>
        df["MonthlyChargesPerService"] =
            Quot(df["MonthlyCharges"].n,
                 df["MonthlyCharges"].d * (df["ServiceAdoptionScore"].n + 1))

\* the score as the claim computes it
ClaimedScore(data) ==
    (IF IsStr(data["InternetService"], "Fiber optic") THEN 2
     ELSE IF IsStr(data["InternetService"], "DSL") THEN 1 ELSE 0)
    + Cardinality({s \in SeqToSet(premium_services) : IsStr(data[s], "Yes")})

\* C10 (as claimed): in both builders ServiceAdoptionScore is 2 for fiber optic, 1 for
\* DSL, plus 1 for each of the six premium services equal to 'Yes'.
C10_ServiceAdoptionScore ==
    Answered => df["ServiceAdoptionScore"] = Num(ClaimedScore(request.data))

\* C10, the part that holds: calculate_service_score of preprocess_customer_data.
C10_ApiServiceAdoptionScore ==
    ApiAnswered => df["ServiceAdoptionScore"] = Num(ClaimedScore(request.data))

\* the band of a tenure, 1 to 3, with inclusive upper bounds 12 and 36
Band(tenure) == IF tenure <= 12 THEN 1 ELSE IF tenure <= 36 THEN 2 ELSE 3

\* the bands in the order each builder names them
api_bands == <<"New_Customer", "Established_Customer", "Long_Term_Customer">>
fe_bands == <<"Short-term", "Medium-term", "Long-term">>

\* C11: tenure <= 12 is the first band, 13..36 the second, above 36 the third, in
\* preprocess_customer_data (column TenureCategory) and in _preprocess_data (tenure_cat,
\* and the code of it in TenureCategory_encoded when the encoder knows the label).
C11_TenureBands ==
    /\ ApiAnswered =>
          df["TenureCategory"] = Str(api_bands[Band(request.data["tenure"].n)])
    /\ LibAnswered =>
          /\ fe_tenure_cat(df["tenure"]) = fe_bands[Band(request.data["tenure"].n)]
          /\ ~UnseenDerived("TenureCategory", fe_bands[Band(request.data["tenure"].n)])
                => df["TenureCategory_encoded"] =
                      Num(transform(models_dir.label_encoders["TenureCategory"],
                                    fe_bands[Band(request.data["tenure"].n)]))

\* C11, witness: tenure 36, the upper end of the second band, went through
\* _preprocess_data with an encoder that knows the label of the band.
C11_Witness ==
    /\ LibAnswered
    /\ request.data["tenure"].n = 36
    /\ ~UnseenDerived("TenureCategory", "Medium-term")
    /\ df["TenureCategory_encoded"] = Num(1)

\* the life stage as the claim derives it
ClaimedLifeStage(data) ==
    IF data["SeniorCitizen"] = Num(1)
    THEN IF IsStr(data["Partner"], "No") THEN "Senior Individual" ELSE "Senior Couple"
    ELSE IF IsStr(data["Partner"], "No") THEN "Young Individual"
    ELSE IF IsStr(data["Dependents"], "Yes") THEN "Young Family"
    ELSE "Young Couple"

\* the life stage the builder of the request's path derived
LifeStage == IF request.path = "api" THEN df["LifeStage"].s ELSE fe_life_stage(df)

\* C12 (as claimed): both builders derive the life stage from seniority, partner and
\* dependents as one of Senior Individual, Senior Couple, Young Individual, Young Family,
\* Young Couple, the same category for the same record.
C12_LifeStage ==
    Answered => LifeStage = ClaimedLifeStage(request.data)

\* C12, the part that holds: determine_life_stage of preprocess_customer_data.
C12_ApiLifeStage ==
    ApiAnswered => LifeStage = ClaimedLifeStage(request.data)

\* the services of each bundle, and the strict-membership indicator over them
ClaimedBundles ==
    [SecurityBundle |-> {"OnlineSecurity", "OnlineBackup", "DeviceProtection"},
     StreamingBundle |-> {"StreamingTV", "StreamingMovies"},
     OnlinePerksBundle |-> {"OnlineSecurity", "OnlineBackup", "TechSupport"},
     BasicSupportBundle |-> {"TechSupport", "DeviceProtection"}]

ClaimedBundle(data, bundle) ==
    IF \A s \in ClaimedBundles[bundle] : IsStr(data[s], "Yes") THEN 1 ELSE 0

\* C13 (as claimed): in both builders each of the four bundles is 1 if every service of
\* its subset is 'Yes' and 0 otherwise, over the same subsets, so both paths give equal
\* bundle values for the same record.
C13_BundlesConsistent ==
    Answered =>
        \A bundle \in DOMAIN ClaimedBundles :
            df[bundle] = Num(ClaimedBundle(request.data, bundle))

\* C13, the part that holds: the bundles of preprocess_customer_data.
C13_ApiBundles ==
    ApiAnswered =>
        \A bundle \in DOMAIN ClaimedBundles :
            df[bundle] = Num(ClaimedBundle(request.data, bundle))

\* the continuous numeric features the claim sends through the scaler
ContinuousFeatures ==
    {"tenure", "MonthlyCharges", "TotalCharges", "ServiceAdoptionScore",
     "MonthlyChargesPerService"}

\* column i of the final vector went through the scaler iff it is a continuous feature,
\* and otherwise holds the value the builder gave the column
ScaledAsClaimed(i) ==
    IF processed_data[i].name \in ContinuousFeatures
    THEN processed_data[i].value = Scaled(df[processed_data[i].name])
    ELSE processed_data[i].value = df[processed_data[i].name]

\* C14 (as claimed): in both builders only the continuous numeric features named by
\* model_features go through the scaler; every encoded, bundle and indicator column of
\* the final vector has the value it had before scaling.
C14_OnlyContinuousScaled ==
    Answered => \A i \in 1..Len(processed_data) : ScaledAsClaimed(i)

\* C14, the part that holds: the scaling step of preprocess_customer_data.
C14_ApiOnlyContinuousScaled ==
    ApiAnswered => \A i \in 1..Len(processed_data) : ScaledAsClaimed(i)

\* the code the claim gives the senior-citizen flag: the flag's label 'No' or 'Yes'
\* through the fitted encoder, 0 for a label the encoder has not seen (C8) and for a
\* column no encoder populates (C7)
ClaimedSeniorCode(flag, encoders) ==
    LET label == IF flag = Num(0) THEN "No" ELSE IF flag = Num(1) THEN "Yes" ELSE "nan"
    IN  IF "SeniorCitizen_Label" \in DOMAIN encoders
           /\ label \in SeqToSet(encoders["SeniorCitizen_Label"])
        THEN Num(IndexOf(encoders["SeniorCitizen_Label"], label) - 1)
        ELSE Num(0)

\* C15 (as claimed): in both builders SeniorCitizen_Label_encoded is the code the fitted
\* SeniorCitizen_Label encoder gives the label 'No' or 'Yes' of the flag, never the raw
\* flag.
C15_SeniorLabelEncoded ==
    (Answered /\ "SeniorCitizen_Label_encoded" \in DOMAIN df) =>
        df["SeniorCitizen_Label_encoded"]
            = ClaimedSeniorCode(request.data["SeniorCitizen"], models_dir.label_encoders)

\* C15, the part that holds: preprocess_customer_data maps the flag, then encodes the label.
C15_ApiSeniorLabelEncoded ==
    (ApiAnswered /\ "SeniorCitizen_Label_encoded" \in DOMAIN df) =>
        /\ df["SeniorCitizen_Label"]
              = Str(IF request.data["SeniorCitizen"] = Num(1) THEN "Yes" ELSE "No")
        /\ df["SeniorCitizen_Label_encoded"]
              = ClaimedSeniorCode(request.data["SeniorCitizen"], models_dir.label_encoders)

\* C16: in both builders HasFiberOptic is 1 iff InternetService is 'Fiber optic' and
\* HasInternet is 1 iff InternetService is not 'No'; so HasFiberOptic = 1 implies
\* HasInternet = 1.
C16_InternetIndicators ==
    Answered =>
        /\ df["HasFiberOptic"] \in {Num(0), Num(1)}
        /\ df["HasInternet"] \in {Num(0), Num(1)}
        /\ df["HasFiberOptic"] = Num(1) <=> request.data["InternetService"] = Str("Fiber optic")
        /\ df["HasInternet"] = Num(1) <=> request.data["InternetService"] # Str("No")
        /\ df["HasFiberOptic"] = Num(1) => df["HasInternet"] = Num(1)

\* C16, witness: a fiber-optic record got both indicators from predict_churn.
C16_Witness ==
    /\ ApiAnswered
    /\ request.data["InternetService"] = Str("Fiber optic")
    /\ df["HasFiberOptic"] = Num(1)
    /\ df["HasInternet"] = Num(1)

\* the record lacks a required raw field
LacksField == ~(SeqToSet(required_fields) \subseteq DOMAIN request.data)

\* the request was rejected by the validation of its path, and nothing after it ran
RejectedByValidation ==
    /\ request.path = "api" =>
          /\ response.status = "422"
          /\ calls = <<"CustomerData">>
    /\ request.path = "lib" =>
          /\ response.status = "raised"
          /\ response.cause = "ValueError"
          /\ calls = <<"predict_single", "_validate_input_data">>
    /\ df = EmptyFrame
    /\ processed_data = <<>>
    /\ churn_probability = NoProbability

\* C17: a record that lacks one of the 19 required fields is rejected with a validation
\* error before feature engineering: neither builder, nor the scaler, nor the classifier
\* is called for it, and no answer is computed from a defaulted field.
C17_MissingFieldRejected ==
    (Handled /\ LacksField) => RejectedByValidation

\* C17, witness: predict_single refused a record without TotalCharges.
C17_Witness ==
    /\ request.path = "lib"
    /\ Handled
    /\ "TotalCharges" \notin DOMAIN request.data
    /\ RejectedByValidation

\* the declared domain of each categorical field
declared_domain ==
    [f \in categorical_fields |->
        IF f = "gender" THEN {"Male", "Female"}
        ELSE IF f \in {"Partner", "Dependents", "PhoneService", "PaperlessBilling"}
        THEN {"Yes", "No"}
        ELSE IF f = "Contract" THEN {"Month-to-month", "One year", "Two year"}
        ELSE IF f = "PaymentMethod"
        THEN {"Electronic check", "Mailed check", "Bank transfer (automatic)",
              "Credit card (automatic)"}
        ELSE IF f = "InternetService" THEN {"DSL", "Fiber optic", "No"}
        ELSE IF f = "MultipleLines" THEN {"Yes", "No", "No phone service"}
        ELSE {"Yes", "No", "No internet service"}]

\* the categorical fields of the record that hold a value outside their domain
OutOfDomain ==
    {f \in categorical_fields \cap DOMAIN request.data :
        ~(request.data[f].kind = "str" /\ request.data[f].s \in declared_domain[f])}

\* C18 (as claimed): a record with a categorical field outside its declared domain,
\* multipleLines and the six service flags included, is rejected with a validation error
\* before feature engineering, by the API schema and by predict_single.
C18_ForeignCategoryRejected ==
    (Handled /\ ~LacksField /\ OutOfDomain # {}) => RejectedByValidation

\* C18, the part that holds: the API schema rejects a foreign value of the eight fields
\* it has a validator for.
C18_ApiValidatedFields ==
    (request.path = "api" /\ Handled /\ ~LacksField
        /\ OutOfDomain \cap {"gender", "Partner", "Dependents", "PhoneService",
                             "PaperlessBilling", "Contract", "PaymentMethod",
                             "InternetService"} # {})
      => RejectedByValidation

\* the value of a numeric field is not numeric: float() raises for it
NonNumeric(c) ==
    \/ c.kind = "none"
    \/ c.kind = "str" /\ c.s \notin {"0", "12", " 170 "}

\* the number a numeric value denotes
Denoted(c) ==
    IF c.kind = "str"
    THEN Num(IF c.s = "0" THEN 0 ELSE IF c.s = "12" THEN 12 ELSE 170)
    ELSE c

\* the cleaned record, as predict_single's frame shows it, against the caller's record:
\* 0.0 where a numeric field was not numeric, every other field with the value it had
CleanedAsClaimed(cleaned, data) ==
    \A f \in DOMAIN data :
        cleaned[f] = IF f \notin {"tenure", "MonthlyCharges", "TotalCharges", "SeniorCitizen"}
                     THEN data[f]
                     ELSE IF NonNumeric(data[f]) THEN Num(0)
                     ELSE Denoted(data[f])

\* predict_single handles the request in this step
HandledByLibrary ==
    request.path = "lib" /\ response.status = "none" /\ response'.status # "none"

BatchHandled ==
    /\ request.path \in {"api_batch", "lib_batch"}
    /\ Handled
    /\ request.path = "api_batch" => Len(request.batch) <= BatchLimit

\* the entries of the batch answer
Entries == IF request.path = "api_batch" THEN response.predictions ELSE response.results

\* the identifier the batch gives the row at position j
RowId(j) == IF request.path = "api_batch" THEN batch_id(j) ELSE j

\* what the single-record path answers for a record alone, the scaler and the classifier
\* not failing
Alone(r, id, p) ==
    IF request.path = "api_batch"
    THEN IF customer_data_valid(r)
         THEN predict_churn_result(
                  preprocess_customer_data(r, models_dir.label_encoders,
                                           models_dir.model_features,
                                           "model_features" \in api_loaded),
                  id, api_loaded, models_dir.model_metadata, p, FALSE, FALSE, clock).response
         ELSE [status |-> "422", detail |-> "validation error", cause |-> "ValidationError"]
    ELSE predict_single_result(
             validate_input_data(r),
             IF missing_fields(r) = <<>>
             THEN preprocess_data(cleaned_data(r), models_dir.label_encoders,
                                  models_dir.model_features)
             ELSE not_preprocessed("ValueError"),
             models_dir.model_metadata, p, FALSE, FALSE, clock).response

\* entry j is the error entry of a failure of row j's own scaler or classifier call, or
\* it is what the single-record path answers for record j, under the row's identifier
RowAsAlone(entry, alone, j) ==
    /\ entry.customer_id = RowId(j)
    /\ IF "error" \in DOMAIN entry
       THEN \/ entry.error.cause \in {"scaler", "model"}
            \/ /\ alone.status \notin {"200", "ok"}
               /\ entry.error = [detail |-> alone.detail, cause |-> alone.cause]
       ELSE /\ alone.status \in {"200", "ok"}
            /\ \A f \in DOMAIN alone \ {"customer_id"} : entry[f] = alone[f]

RowsAsAlone ==
    /\ response.status \in {"200", "ok"}
    /\ Len(Entries) = Len(request.batch)
    /\ \E p \in BatchProbabilities :
          \E alone \in {[r \in SeqToSet(request.batch) |-> Alone(r, "None", p)]} :
             \A j \in 1..Len(request.batch) :
                RowAsAlone(Entries[j], alone[request.batch[j]], j)

\* C21 (as claimed): in batch mode a validation or scoring failure of row i marks only
\* row i as failed: the batch is answered, entry i carries row i's identifier and the
\* error, and every other entry is what the single-record path answers for its record.
C21_RowIsolation ==
    BatchHandled => RowsAsAlone

\* C21, the part that holds: predict_batch, and predict_churn_batch on a body whose
\* records all pass the schema.
C21_ScoringFailureIsolated ==
    (/\ BatchHandled
     /\ (request.path = "api_batch" =>
            \A i \in 1..Len(request.batch) : customer_data_valid(request.batch[i])))
      => RowsAsAlone

\* startup ran and one of the five artifacts did not load
PartiallyLoaded == api_started /\ api_loaded # SeqToSet(components)

\* a prediction request of the API was handled
ApiPredictionHandled == request.path \in {"api", "api_batch"} /\ Handled

\* a prediction came out of the request: an answer 200 with a decision record in it
PredictionServed ==
    \/ ApiAnswered
    \/ /\ request.path = "api_batch"
       /\ response.status = "200"
       /\ \E i \in 1..Len(response.predictions) :
             "error" \notin DOMAIN response.predictions[i]

\* C22 (as claimed): if one of the five artifacts fails to load at startup, then ever
\* after the health check reports 'unhealthy' and no prediction request is served, also
\* when only model_features or model_metadata is missing.
C22_PartialLoadUnhealthy ==
    PartiallyLoaded =>
        /\ request.path = "health" => response.health = "unhealthy"
        /\ ApiPredictionHandled => ~PredictionServed

\* C22, the part that holds: no prediction comes out of a partially loaded API, and the
\* health check reports 'unhealthy' when the model, the scaler or the encoders are missing.
C22_PartialLoadServesNothing ==
    PartiallyLoaded =>
        /\ ApiPredictionHandled => ~PredictionServed
        /\ (request.path = "health" /\ ~({"model", "scaler", "label_encoders"} \subseteq api_loaded))
              => response.health = "unhealthy"

\* a step leaves the loaded artifacts as they are: the API's globals once startup ran,
\* the library's predictor once it is set, and what the artifacts hold
ArtifactsKept ==
    /\ api_started => api_started' /\ api_loaded' = api_loaded
    /\ predictor = "instance" => predictor' = "instance"
    /\ models_dir.label_encoders' = models_dir.label_encoders
    /\ models_dir.model_features' = models_dir.model_features
    /\ models_dir.model_metadata' = models_dir.model_metadata

\* every call of get_predictor that returned has returned the same instance
SameInstance ==
    \A c, d \in Callers :
        callers.pc[c] = "returned" /\ callers.pc[d] = "returned"
            => callers.got[c] = callers.got[d]

\* C23 (as claimed): the artifacts are loaded once and read-only afterwards; also when
\* several callers are inside get_predictor before the first load has finished, at most
\* one ChurnPredictor is constructed and every caller receives that same instance.
C23_LoadedOnce ==
    /\ [][ArtifactsKept]_vars
    /\ [](callers.made <= 1 /\ SameInstance)

\* C23, the part that holds: no request and no call changes artifacts that are loaded.
C23_ArtifactsReadOnly == [][ArtifactsKept]_vars

\* the handler run once more at time now on the input of the request in flight, with
\* the artifacts and the classifier's output of the first run
SecondRun(now) ==
    IF request.path = "api"
    THEN predict_churn_result(
             preprocess_customer_data(request.data, models_dir.label_encoders,
                                      models_dir.model_features,
                                      "model_features" \in api_loaded),
             "None", api_loaded, models_dir.model_metadata, churn_probability,
             FALSE, FALSE, now)
    ELSE predict_single_result(
             validate_input_data(request.data),
             preprocess_data(cleaned_data(request.data), models_dir.label_encoders,
                             models_dir.model_features),
             models_dir.model_metadata, churn_probability, FALSE, FALSE, now)

\* a decision record without the time it was made at
Undated(record) ==
    IF "model_info" \in DOMAIN record
    THEN [record EXCEPT !.model_info.prediction_timestamp = 0]
    ELSE [record EXCEPT !.prediction_date = 0]

\* the times a run can happen at
Times == 0..MaxClock

C24_WitnessLib ==
    LibAnswered /\ \E now \in Times : SecondRun(now).response # response

\* the record in flight says 'No' internet service with a service flag 'Yes', or an
\* internet service with a flag 'No internet service'
FlagsWithoutInternet ==
    /\ request.data["InternetService"].s = "No"
    /\ \E i \in 1..Len(premium_services) : request.data[premium_services[i]].s = "Yes"

InternetWithoutFlags ==
    /\ request.data["InternetService"].s # "No"
    /\ \E i \in 1..Len(premium_services) :
          request.data[premium_services[i]].s = "No internet service"

\* validation let the record through: the handler went on to build its features
PassedValidation ==
    /\ request.path = "api" =>
          /\ customer_data_valid(request.data)
          /\ "preprocess_customer_data" \in SeqToSet(calls)
    /\ request.path = "lib" =>
          /\ validate_input_data(request.data).ok
          /\ "_preprocess_data" \in SeqToSet(calls)

\* the artifacts are the ones of the training run, all loaded
TrainedArtifacts ==
    /\ models_dir.label_encoders = trained_encoders
    /\ models_dir.model_features = trained_features
    /\ request.path = "api" => api_loaded = SeqToSet(components)

\* C25: cross-field consistency is not enforced. A record whose service flags disagree
\* with its InternetService passes validation on both paths and is scored like any
\* other record: with the trained artifacts it gets a decision record.
C25_InconsistencyAccepted ==
    (Handled /\ request.path \in {"api", "lib"}
       /\ (FlagsWithoutInternet \/ InternetWithoutFlags))
      => /\ PassedValidation
         /\ ~RejectedByValidation
         /\ (TrainedArtifacts /\ ~ExternalFailure) => Answered

\* both kinds of disagreement have been scored by the API
C25_WitnessFlags == ApiAnswered /\ FlagsWithoutInternet

C25_WitnessNoFlags == ApiAnswered /\ InternetWithoutFlags

\* the risk category and the action of the decision record in the answer
RiskCategory == response.risk_category

Action == IF ApiAnswered THEN response.recommended_action ELSE response.recommendation

\* the word a recommended action opens with
FirstWord(text) ==
    CASE text = api_recommended_action(ApiHighRisk) -> "Immediate"
      [] text = api_recommended_action(ApiMediumRisk) -> "Proactive"
      [] text = api_recommended_action(0) -> "Monitor"
      [] text = fe_recommendation(FeHighRisk + 1) -> "Immediate"
      [] text = fe_recommendation(FeMediumRisk + 1) -> "Monitor"
      [] text = fe_recommendation(0) -> "Standard"

\* the message the claim names for a risk category
ClaimedFirstWord(category) ==
    CASE category = "High Risk" -> "Immediate"
      [] category = "Medium Risk" -> "Proactive"
      [] category = "Low Risk" -> "Monitor"

\* the risk category and the action the same serving path gives a probability q
RiskCategoryOf(q) == IF ApiAnswered THEN api_risk_category(q) ELSE fe_risk_category(q)

ActionOf(q) == IF ApiAnswered THEN api_recommended_action(q) ELSE fe_recommendation(q)

\* on the path of the answer, two records have the same action exactly when they have
\* the same risk category
KeyedByCategory ==
    \A q \in Probabilities :
        RiskCategoryOf(q) = RiskCategory <=> ActionOf(q) = Action

\* C26 (as claimed): on either path the recommended action is a static text keyed by
\* the risk category alone, an immediate-intervention message for High Risk, a
\* proactive-outreach message for Medium Risk and a monitor message for Low Risk.
C26_ActionByCategory ==
    Answered =>
        /\ KeyedByCategory
        /\ FirstWord(Action) = ClaimedFirstWord(RiskCategory)

\* C26, the part that holds: on either path the action is keyed by the risk category and
\* differs between categories; predict_churn's three texts are the ones named.
C26_ActionKeyed ==
    Answered =>
        /\ KeyedByCategory
        /\ ApiAnswered => FirstWord(Action) = ClaimedFirstWord(RiskCategory)

\* C27 (as claimed): in every decision record, for every probability and every threshold
\* the metadata supplies or omits, the label is "will churn" exactly when the risk
\* category is High Risk or Medium Risk.
C27_LabelAgreesWithRisk ==
    Answered => (Label = "Will Churn" <=> RiskCategory \in {"High Risk", "Medium Risk"})

\* C27, the part that holds: predict_single's label and risk category agree, and so do
\* predict_churn's when the metadata configures the threshold 0.535.
C27_AgreeAtDefaultCut ==
    (\/ LibAnswered
     \/ /\ ApiAnswered
        /\ ThresholdConfigured
        /\ models_dir.model_metadata.recommended_threshold = ApiMediumRisk)
      => (Label = "Will Churn" <=> RiskCategory \in {"High Risk", "Medium Risk"})

\* the API's batch handler ran on a body that parsed as a list of CustomerData
ApiBatchHandled ==
    /\ request.path = "api_batch"
    /\ Handled
    /\ \A i \in 1..Len(request.batch) : customer_data_valid(request.batch[i])

\* the calls of the loop: what follows the first two of calls
LoopCalls == SubSeq(calls, 3, Len(calls))

\* the number of the row whose call of predict_churn the k-th call of the loop belongs to
RowOfCall(k) == Cardinality({s \in 1..k : LoopCalls[s] = "predict_churn"})

\* predict_churn was called once for each row, rows in input order: the classifier was
\* reached in the calls of row i exactly when entry i holds a prediction or the error of
\* a failure at or after the classifier
RowByRow ==
    /\ Cardinality({s \in 1..Len(LoopCalls) : LoopCalls[s] = "predict_churn"})
          = Len(request.batch)
    /\ Len(LoopCalls) > 0 => LoopCalls[1] = "predict_churn"
    /\ \E scored \in {{RowOfCall(k) : k \in {s \in 1..Len(LoopCalls) :
                                               LoopCalls[s] = "model.predict_proba"}}} :
          \A i \in 1..Len(request.batch) :
              i \in scored
                 <=> \/ "error" \notin DOMAIN response.predictions[i]
                     \/ response.predictions[i].error.cause \in {"model", "AttributeError"}

\* C28: predict_churn_batch accepts at most 100 records. A list of more than 100 is
\* refused as a whole with status 400 before any record is preprocessed or scored; a list
\* of 0 to 100 is processed record by record in input order: predict_churn is called for
\* row after row, and entry i is the outcome of row i under the identifier batch_<i-1>.
C28_BatchLimit ==
    ApiBatchHandled =>
        IF Len(request.batch) > 100
        THEN /\ response.status = "400"
             /\ "predictions" \notin DOMAIN response
             /\ calls = <<"List[CustomerData]", "predict_churn_batch">>
        ELSE /\ response.status = "200"
             /\ Len(response.predictions) = Len(request.batch)
             /\ RowsAsAlone
             /\ SubSeq(calls, 1, 2) = <<"List[CustomerData]", "predict_churn_batch">>
             /\ RowByRow

\* a list of 101 records was refused, and a list of 100 was processed to the last row
C28_WitnessRefused ==
    /\ ApiBatchHandled
    /\ Len(request.batch) = 101
    /\ response.status = "400"
    /\ calls = <<"List[CustomerData]", "predict_churn_batch">>

C28_WitnessProcessed ==
    /\ ApiBatchHandled
    /\ Len(request.batch) = 100
    /\ response.status = "200"
    /\ "error" \notin DOMAIN response.predictions[100]
    /\ "error" \in DOMAIN response.predictions[1]

\* the step is ChurnPredictor() raising in the call of c
ConstructionFails(c) == callers.pc[c] = "construct" /\ callers'.pc[c] = "raised"

\* the step is the test of `_predictor is None` in a new call of c
CallBegins(c) == callers.pc[c] = "idle" /\ callers'.pc[c] # "idle"

\* a failed construction leaves the global unset and hands nothing to its caller
FailureLeavesNothing ==
    \A c \in Callers :
        ConstructionFails(c) =>
            /\ predictor = "None" /\ predictor' = "None"
            /\ callers'.current = 0
            /\ callers'.got[c] = 0
            /\ callers'.made = callers.made

\* a call that finds the global unset attempts the load; one that finds it set does not
LoadAttemptedWhenUnset ==
    \A c \in Callers :
        CallBegins(c) =>
            IF callers.current = 0 THEN callers'.pc[c] = "construct"
            ELSE callers'.pc[c] = "return"

\* whatever a call returned is an instance whose construction succeeded
ReturnedInstancesLoaded ==
    \A c \in Callers :
        callers.pc[c] = "returned" => callers.got[c] \in 1..callers.made

\* once an instance is in the global, it stays there and nothing is loaded again
LoadedForGood ==
    callers.current # 0 =>
        /\ callers'.current = callers.current
        /\ callers'.made = callers.made

\* C29 (as claimed): a construction that raises leaves the global predictor unset and
\* returns no instance, a later call attempts the load again, and once a load succeeded
\* every later call returns that instance without loading again.
C29_AllOrNothing ==
    /\ [][FailureLeavesNothing /\ LoadAttemptedWhenUnset /\ LoadedForGood]_vars
    /\ []ReturnedInstancesLoaded

\* C29, the part that holds: failure leaves nothing behind, the next call tries again, a
\* call that finds the predictor set does not construct, and only loaded instances are
\* returned.
C29_FailureLeavesNothing ==
    /\ [][FailureLeavesNothing /\ LoadAttemptedWhenUnset]_vars
    /\ []ReturnedInstancesLoaded

\* the session is authenticated; its username
Authenticated == is_authenticated(frontend.session_state)

CurrentUser == get_current_user(frontend.session_state)

\* the page shows content of the application, not only the messages of a refusal
ShowsContent ==
    \E i \in 1..Len(frontend.rendered) :
        frontend.rendered[i] \in {"user info"} \cup
            {content(page)[k] : page \in pages \cup {"app", "Admin Panel"}, k \in 2..3}

\* C30: across every sequence of login attempts and logouts in one session, the session
\* is authenticated only if the most recent login or logout that went through was a
\* login whose username was stored with the SHA-256 digest of its password, and its
\* username is then that user's name; after a logout it is unauthenticated with no
\* username; a protected page shows no content to an unauthenticated session, and the
\* admin panel shows none unless the username is 'admin'.
C30_SessionAuthentication ==
    /\ Authenticated =>
          /\ frontend.last.action = "login"
          /\ frontend.last.username \in DOMAIN frontend.last.users
          /\ frontend.last.users[frontend.last.username]
                = hash_password(frontend.last.password)
          /\ CurrentUser = frontend.last.username
    /\ frontend.last.action = "logout" => ~Authenticated /\ CurrentUser = "None"
    /\ frontend.last.action = "none" => ~Authenticated /\ CurrentUser = "None"
    /\ ~Authenticated => ~ShowsContent
    /\ (~Authenticated /\ frontend.page # "app") =>
          frontend.rendered = <<"error: Access Denied",
                                "info: Please log in through the main page">>
    /\ (frontend.page = "Admin Panel" /\ CurrentUser # "admin") => ~ShowsContent

\* after a logout of admin, the user the admin added has logged in and is refused on the
\* admin panel
C30_Witness ==
    /\ Authenticated
    /\ CurrentUser = "guest"
    /\ frontend.last.action = "login"
    /\ frontend.page = "Admin Panel"
    /\ ~ShowsContent

\* a session that logged out is refused on a protected page
C30_WitnessLoggedOut ==
    /\ frontend.last.action = "logout"
    /\ frontend.page \in pages
    /\ ~ShowsContent
====
